---- MODULE Spec2Model ----
(***************************************************************************)
(* State-machine model of the tick pipeline of QuantDevelopment:           *)
(*   - SamplingEngine (backend/services/sampling_engine.py): tick -> 1m    *)
(*     OHLC bars, final bars and periodic snapshots on the 'ohlc' channel; *)
(*   - BinanceWebSocketClient (src/ingestion/websocket_client.py):         *)
(*     connect / reconnect loops with backoff;                             *)
(*   - websocket_handler (src/api/websocket_handler.py) and /ws/live       *)
(*     (backend/main.py): subscriber registries and fan-out;               *)
(*   - AlertManager (src/alerting/alert_manager.py): bounded history;     *)
(*   - BinanceWebSocketClient.get_stats: the reported connected flag;      *)
(*   - AlertEngine (backend/services/alert_engine.py): acknowledgement.    *)
(* Each component has its own specification over the shared variables.     *)
(***************************************************************************)
EXTENDS Integers, Sequences, FiniteSets, TLC

(***************************************************************************)
(* Bounds of the model                                                     *)
(***************************************************************************)
MaxTicks == 3
MaxSnapshots == 1
MaxFails == 7
MaxTickCount == 1
NumConns == 2
MaxAlerts == 102
MaxInsertFailures == 1
MaxWrites == 3
MaxRewrites == 1
MaxOverlaps == 2
MaxTasks == 3
MaxPublished == 2
MaxListenErrors == 1
MaxMessages == 2
MaxCalls == 2
MaxRedisFailures == 1
MaxBarFailures == 1
MaxCycles == 2
MaxCycleFaults == 1
MaxCount == 2
MaxEngineAlerts == 3

(***************************************************************************)
(* Program constants                                                       *)
(***************************************************************************)
IntervalMs == 60000
OhlcKeep == 500
None == -1
InitialReconnectDelay == 1
MaxReconnectDelay == 60
HistoryCap == 100
TickKeep == 1000
RedisOhlcKeep == 100
RecentWindowMs == 10000

Symbols == {"X", "Y"}
\* Inputs: the trades (price, quantity) of Scenario A and two trade times,
\* 59999 (last ms of bucket 0) and 90123 (inside bucket 60000)
Trades == {<<100, 1>>, <<105, 2>>, <<98, 1>>}
Timestamps == {59999, 90123}

Ticks == {[symbol |-> s, price |-> t[1], quantity |-> t[2], timestamp |-> ts] :
            s \in Symbols, t \in Trades, ts \in Timestamps}
NoTick == [symbol |-> "", price |-> None, quantity |-> None, timestamp |-> None]

VARIABLES
  \* ---- SamplingEngine ----
  sampling_running,   \* self._running
  current_bars,       \* self._current_bars[symbol]['1m']
  bar_keys,           \* keys of self._current_bars, in insertion order
  aggPc,              \* position of the _aggregate_ticks task
  aggTick,            \* the tick last taken from 'market_data' (handler locals)
  bar_data,           \* local bar_data of _publish_bar
  ohlcStore,          \* Redis sorted set ohlc:{symbol}:1m  (member, score)
  ohlcChan,           \* messages published on the 'ohlc' channel, in order
  snapPc,             \* position of the _publish_snapshots task
  snapTodo,           \* rest of list(self._current_bars.items()) in this cycle
  snapshotsSent,      \* snapshots published so far
  ticksSeen,          \* ticks delivered on 'market_data' so far
  applied,            \* history: ticks applied to the open bar of each symbol
  \* ---- BinanceWebSocketClient ----
  mode,               \* self.mode: "combined" or "per_symbol"
  transport,          \* which state attribute the websockets library exposes
  client_running,     \* self.running
  websocket,          \* self.websocket (combined connection)
  websockets,         \* self.websockets[symbol] (per-symbol connections)
  reconnect_delay,    \* self.reconnect_delay
  runPc,              \* position of run() in combined mode
  delay,              \* local delay of _run_symbol_loop(symbol)
  symPc,              \* position of _run_symbol_loop(symbol)
  closeTasks,         \* symbols whose ws.close() task stop() has created
  tick_count,         \* self.tick_count[symbol]
  connectFails,       \* history: failed connects since the last successful one
  symConnectFails,    \* history: the same, per symbol loop
  handled,            \* messages handled so far, with their contents looked at
  lastMessage,        \* the message handled last: symbol, kind, callback raises
  callbackLog,        \* history: the ticks passed to self.callback, in order
  \* ---- websocket_handler and /ws/live ----
  active_connections, \* websocket_handler.active_connections (a set)
  handlerPc,          \* position of websocket_endpoint(connection)
  broken,             \* connections on which every send raises
  call,               \* the broadcast_tick / broadcast_alert call in progress
  live_connections,   \* backend.main.active_connections
  livePc,             \* position of websocket_live_data(connection)
  \* ---- AlertManager ----
  alert_history,      \* self.alert_history
  triggerPc,          \* position of trigger_alert
  alert,              \* local alert of trigger_alert (its creation number)
  alertsCreated,      \* alerts created so far by trigger_alert
  insertFailures,     \* failed db.insert_alert calls so far
  appended,           \* history: every alert ever appended to alert_history
  \* ---- bounded windows in Redis and the ohlc table ----
  storeKind,          \* which store the behaviour is about
  zrange,               \* the Redis sorted set of one key, in rank order
  dbRows,             \* rows of one symbol in table ohlc_{interval}
  wPc,                \* position of each store call in progress
  wMember,            \* the entry each call in progress writes
  firstTs,            \* the first fresh timestamp of this run
  nextTs,             \* the next fresh timestamp
  rewrites,           \* writes so far to a timestamp already written
  overlaps,           \* calls so far that began while another was in progress
  \* ---- SamplingEngine task lifecycle ----
  engine_running,     \* self._running
  agg_tasks,          \* position of every _aggregate_ticks task ever created
  sampling_task,      \* self._sampling_task (0 is None)
  inbox,              \* messages each task's pubsub has received and not handled
  published,          \* ticks published on 'market_data' so far
  listenErrors,       \* errors raised so far by pubsub.listen()
  tickLog,            \* history: <<task, tick>> for every tick applied to a bar
  \* ---- DataProcessor ----
  tick_buffer,        \* self.tick_buffer[symbol] (ticks by call number)
  processing_stats,   \* self.processing_stats
  procPc,             \* position of the process_tick call in progress
  procTick,           \* the tick of the call in progress or last ended
  procResult,         \* how the last call ended: "returned" or "raised"
  tickStream,         \* messages published on 'tick_stream', in order
  tickStore,          \* Redis sorted set ticks:{symbol}, in rank order
  calls,              \* process_tick calls so far
  redisFailures,      \* Redis calls that raised so far
  redisRaised,        \* a Redis call raised in the call in progress or last ended
  statsAtCall,        \* history: processing_stats when that call began
  recent,             \* the last get_recent_ticks call: arguments and result
  \* ---- Redis faults seen by the SamplingEngine ----
  barFailures,        \* Redis calls of _publish_bar that raised so far
  \* ---- AlertManager.check_all_rules ----
  check_count,        \* self.check_count
  cyclePc,            \* position of the check_all_rules run in progress
  available,          \* 'latest_analytics' held a snapshot in this cycle
  verdict,            \* what each rule's condition does on this cycle's snapshot
  ruleIx,             \* index in self.rules of the rule being handled
  evaluated,          \* history: rules whose check ran in this cycle
  created,            \* history: rules whose alert dict was built in this cycle
  persisted,          \* history: rules whose alert insert_alert stored
  broadcasted,        \* history: rules whose alert broadcast_alert was given
  abortedAt,          \* history: rule whose trigger_alert raised in this cycle
  raisedBefore,       \* history: rules whose condition raised in the last cycle
  cycleFaults,        \* failures injected so far
  \* ---- Scenario D: the z-score rule on one snapshot ----
  analytics_data,     \* the snapshot (a dict: field -> value, z-scores in tenths)
  rsi,                \* argument rsi of StrategyEngine.check_alerts
  macd_histogram,     \* argument macd_histogram of check_alerts, in tenths
  emitted,            \* alerts created by the alert manager for the snapshot
  signals,            \* alerts returned by check_alerts
  scenarioDone,        \* which of the two evaluations have run
  \* ---- BinanceWebSocketClient.get_stats ----
  statsMode,          \* self.mode when get_stats runs
  statsSocket,        \* self.websocket
  statsSockets,       \* self.websockets[symbol]
  tickAge,            \* now_ms - self.last_tick_ts[symbol]
  client_stats,       \* the dict get_stats returned
  \* ---- AlertEngine ----
  engine_alerts,      \* self._alerts
  engineIds,          \* ids handed out by uuid4 so far
  ackResult,          \* how the last acknowledge_alert ended
  ackId               \* the id it was called with

samplingVars == <<sampling_running, current_bars, bar_keys, aggPc, aggTick,
                  bar_data, ohlcStore, ohlcChan, snapPc, snapTodo, snapshotsSent,
                  ticksSeen, applied>>

connectionVars == <<mode, transport, client_running, websocket, websockets,
                    reconnect_delay, runPc, delay, symPc, closeTasks, tick_count,
                    connectFails, symConnectFails>>

messageVars == <<handled, lastMessage, callbackLog>>

ingestVars == <<connectionVars, messageVars>>

fanoutVars == <<active_connections, handlerPc, broken, call, live_connections,
                livePc>>

alertVars == <<alert_history, triggerPc, alert, alertsCreated, insertFailures,
               appended>>

storeVars == <<storeKind, zrange, dbRows, wPc, wMember, firstTs, nextTs, rewrites,
               overlaps>>

lifecycleVars == <<engine_running, agg_tasks, sampling_task, inbox, published,
                   listenErrors, tickLog>>

processorVars == <<tick_buffer, processing_stats, procPc, procTick, procResult,
                   tickStream, tickStore, calls, redisFailures, redisRaised,
                   statsAtCall, recent>>

faultVars == <<barFailures>>

scenarioVars == <<analytics_data, rsi, macd_histogram, emitted, signals,
                  scenarioDone>>

cycleVars == <<check_count, cyclePc, available, verdict, ruleIx, evaluated,
               created, persisted, broadcasted, abortedAt, raisedBefore,
               cycleFaults>>

statsVars == <<statsMode, statsSocket, statsSockets, tickAge,
               client_stats>>

engineVars == <<engine_alerts, engineIds, ackResult, ackId>>

vars == <<samplingVars, ingestVars, fanoutVars, alertVars, storeVars,
          lifecycleVars, processorVars, faultVars, cycleVars, scenarioVars,
  statsVars, engineVars>>

\* what the actions of one component leave alone
restOfSampling == <<ingestVars, fanoutVars, alertVars, storeVars,
  lifecycleVars,
  processorVars, faultVars, cycleVars, scenarioVars,
  statsVars, engineVars>>
restOfClient == <<samplingVars, fanoutVars, alertVars, storeVars,
  lifecycleVars,
  processorVars, faultVars, cycleVars, scenarioVars,
  statsVars, engineVars>>
restOfIngest == <<messageVars, restOfClient>>
restOfFanout == <<samplingVars, ingestVars, alertVars, storeVars,
  lifecycleVars,
  processorVars, faultVars, cycleVars, scenarioVars,
  statsVars, engineVars>>
restOfAlerts == <<samplingVars, ingestVars, fanoutVars, storeVars,
  lifecycleVars,
  processorVars, faultVars, cycleVars, scenarioVars,
  statsVars, engineVars>>
restOfLifecycle == <<samplingVars, ingestVars, fanoutVars, alertVars, storeVars,
  processorVars, faultVars, cycleVars, scenarioVars,
  statsVars, engineVars>>
restOfProcessor == <<samplingVars, ingestVars, fanoutVars, alertVars, storeVars,
  lifecycleVars, faultVars, cycleVars, scenarioVars,
  statsVars, engineVars>>
restOfFaults == <<ingestVars, fanoutVars, alertVars, storeVars, lifecycleVars,
  processorVars, cycleVars, scenarioVars,
  statsVars, engineVars>>
restOfCycle == <<samplingVars, ingestVars, fanoutVars, storeVars, lifecycleVars,
  processorVars, faultVars, scenarioVars,
  statsVars, engineVars>>
restOfScenario == <<samplingVars, ingestVars, fanoutVars, alertVars, storeVars,
  lifecycleVars, processorVars, faultVars, cycleVars,
  statsVars, engineVars>>
restOfStore == <<samplingVars, ingestVars, fanoutVars, alertVars,
  lifecycleVars,
  processorVars, faultVars, cycleVars, scenarioVars,
  statsVars, engineVars>>
restOfStats == <<samplingVars, ingestVars, fanoutVars, alertVars, storeVars,
  lifecycleVars, processorVars, faultVars, cycleVars, scenarioVars,
  engineVars>>
restOfEngine == <<samplingVars, ingestVars, fanoutVars, alertVars,
  storeVars, lifecycleVars, processorVars, faultVars, cycleVars, scenarioVars,
  statsVars>>

(***************************************************************************)
(* Helpers                                                                 *)
(***************************************************************************)
Max2(a, b) == IF a >= b THEN a ELSE b
Min2(a, b) == IF a <= b THEN a ELSE b

RECURSIVE SeqMax(_)
SeqMax(s) == IF Len(s) = 1 THEN s[1] ELSE Max2(s[1], SeqMax(Tail(s)))
RECURSIVE SeqMin(_)
SeqMin(s) == IF Len(s) = 1 THEN s[1] ELSE Min2(s[1], SeqMin(Tail(s)))
RECURSIVE SeqSum(_)
SeqSum(s) == IF s = <<>> THEN 0 ELSE s[1] + SeqSum(Tail(s))

SeqRange(s) == {s[i] : i \in 1..Len(s)}

(***************************************************************************)
(* SamplingEngine                                                          *)
(***************************************************************************)
\* The default bar of the defaultdict (sampling_engine.py:18-26)
EmptyBar == [open |-> None, high |-> None, low |-> None, close |-> None,
             volume |-> 0, trades |-> 0, timestamp |-> None]

MinuteTsRounded(timestamp) == ((timestamp + 30000) \div IntervalMs) * IntervalMs

\* minute_ts = (timestamp // 60000) * 60000
MinuteTs(timestamp) == (timestamp \div IntervalMs) * IntervalMs

StartNewBarNoTrade(price, quantity, minute_ts) ==
  [open |-> price, high |-> price, low |-> price, close |-> price,
   volume |-> quantity, trades |-> 0, timestamp |-> minute_ts]

\* "Start new bar"
StartNewBar(price, quantity, minute_ts) ==
  [open |-> price, high |-> price, low |-> price, close |-> price,
   volume |-> quantity, trades |-> 1, timestamp |-> minute_ts]

UpdateBarNoMax(bar, price, quantity) ==
  [bar EXCEPT !.high = price,
              !.low = Min2(bar.low, price),
              !.close = price,
              !.volume = bar.volume + quantity,
              !.trades = bar.trades + 1]

\* "Update existing bar"
UpdateBar(bar, price, quantity) ==
  [bar EXCEPT !.high = Max2(bar.high, price),
              !.low = Min2(bar.low, price),
              !.close = price,
              !.volume = bar.volume + quantity,
              !.trades = bar.trades + 1]

EveryTickRolls(bar, minute_ts) == TRUE

\* The rollover test of _aggregate_ticks
IsNewBucket(bar, minute_ts) == bar.timestamp = None \/ bar.timestamp # minute_ts

\* "Publish completed bar if exists"
HasCompletedBar(bar) == bar.timestamp # None /\ bar.open # None

\* The dict built by _publish_bar (final) and _publish_snapshots (not final)
BarMessage(symbol, bar, final) ==
  [symbol |-> symbol, interval |-> "1m", open |-> bar.open, high |-> bar.high,
   low |-> bar.low, close |-> bar.close, volume |-> bar.volume,
   trades |-> bar.trades, timestamp |-> bar.timestamp, final |-> final]

FinalBarDataNotFinal(symbol, bar) == BarMessage(symbol, bar, FALSE)

\* bar_data of _publish_bar
FinalBarData(symbol, bar) == BarMessage(symbol, bar, TRUE)

SnapshotDataTorn(symbol, bar) ==
  [BarMessage(symbol, bar, FALSE) EXCEPT !.close = bar.open]

\* snapshot of _publish_snapshots
SnapshotData(symbol, bar) == BarMessage(symbol, bar, FALSE)

NoBarData == BarMessage("", EmptyBar, FALSE)

\* redis ZADD key {member: score}: a member is stored once, with its last score
ZAdd(zset, member, score) ==
  {e \in zset : e.member # member} \cup {[member |-> member, score |-> score]}

\* redis ZREMRANGEBYRANK key 0 -(keep+1): the sets that can be left when only the
\* `keep` highest-ranked entries are kept (ties in score are ranked by member)
ZTrimResults(zset, keep) ==
  IF Cardinality(zset) <= keep THEN {zset}
  ELSE {S \in SUBSET zset :
          /\ Cardinality(S) = keep
          /\ \A k \in S : \A r \in zset \ S : r.score <= k.score}

\* self._intervals
ActiveIntervals == <<"1m">>

\* self._current_bars[symbol][interval]: the defaultdict's empty bar for an
\* interval _aggregate_ticks never touches
BarOf(symbol, interval) ==
  IF interval = "1m" THEN current_bars[symbol] ELSE EmptyBar

InitSampling ==
  /\ sampling_running = FALSE
  /\ current_bars = [s \in Symbols |-> EmptyBar]
  /\ bar_keys = <<>>
  /\ aggPc = "none"
  /\ aggTick = NoTick
  /\ bar_data = NoBarData
  /\ ohlcStore = [s \in Symbols |-> {}]
  /\ ohlcChan = <<>>
  /\ snapPc = "none"
  /\ snapTodo = <<>>
  /\ snapshotsSent = 0
  /\ ticksSeen = 0
  /\ applied = [s \in Symbols |-> <<>>]

\* start_sampling(): sets _running and creates both tasks
StartSampling ==
  /\ aggPc = "none"
  /\ sampling_running' = TRUE
  /\ aggPc' = "listen"
  /\ snapPc' = "loop"
  /\ UNCHANGED <<current_bars, bar_keys, aggTick, bar_data, ohlcStore, ohlcChan,
                 snapTodo, snapshotsSent, ticksSeen, applied>>
  /\ UNCHANGED restOfSampling

\* stop(): clears _running and cancels both tasks at their suspension point
StopSampling ==
  /\ sampling_running
  /\ sampling_running' = FALSE
  /\ aggPc' = "cancelled"
  /\ snapPc' = "cancelled"
  /\ UNCHANGED <<current_bars, bar_keys, aggTick, bar_data, ohlcStore, ohlcChan,
                 snapTodo, snapshotsSent, ticksSeen, applied>>
  /\ UNCHANGED restOfSampling

\* One 'market_data' message handled by _aggregate_ticks up to its first await
\* (a rollover with a completed bar) or to the end of the handler.
AggregateTick(tick) ==
  LET symbol == tick.symbol
      minute_ts == MinuteTs(tick.timestamp)
      bar == current_bars[symbol]
  IN
  /\ aggPc = "listen"
  /\ sampling_running
  /\ ticksSeen < MaxTicks
  /\ ticksSeen' = ticksSeen + 1
  /\ bar_keys' = IF symbol \in SeqRange(bar_keys) THEN bar_keys
                 ELSE Append(bar_keys, symbol)
  /\ IF IsNewBucket(bar, minute_ts)
     THEN IF HasCompletedBar(bar)
          THEN /\ aggPc' = "zadd"
               /\ bar_data' = FinalBarData(symbol, bar)
               /\ UNCHANGED <<current_bars, applied>>
          ELSE /\ current_bars' = [current_bars EXCEPT ![symbol] =
                    StartNewBar(tick.price, tick.quantity, minute_ts)]
               /\ applied' = [applied EXCEPT ![symbol] = <<tick>>]
               /\ UNCHANGED <<aggPc, bar_data>>
     ELSE /\ current_bars' = [current_bars EXCEPT ![symbol] =
               UpdateBar(bar, tick.price, tick.quantity)]
          /\ applied' = [applied EXCEPT ![symbol] = Append(@, tick)]
          /\ UNCHANGED <<aggPc, bar_data>>
  /\ aggTick' = tick
  /\ UNCHANGED <<sampling_running, ohlcStore, ohlcChan, snapPc, snapTodo,
                 snapshotsSent>>
  /\ UNCHANGED restOfSampling

\* _publish_bar: await self.redis.zadd(key, {json.dumps(bar_data): timestamp})
PublishBarZadd ==
  /\ aggPc = "zadd"
  /\ ohlcStore' = [ohlcStore EXCEPT ![bar_data.symbol] =
                     ZAdd(@, bar_data, bar_data.timestamp)]
  /\ aggPc' = "zrem"
  /\ UNCHANGED <<sampling_running, current_bars, bar_keys, aggTick, bar_data,
                 ohlcChan, snapPc, snapTodo, snapshotsSent, ticksSeen, applied>>
  /\ UNCHANGED restOfSampling

\* _publish_bar: await self.redis.zremrangebyrank(key, 0, -501)
PublishBarZrem ==
  /\ aggPc = "zrem"
  /\ \E kept \in ZTrimResults(ohlcStore[bar_data.symbol], OhlcKeep) :
       ohlcStore' = [ohlcStore EXCEPT ![bar_data.symbol] = kept]
  /\ aggPc' = "publish"
  /\ UNCHANGED <<sampling_running, current_bars, bar_keys, aggTick, bar_data,
                 ohlcChan, snapPc, snapTodo, snapshotsSent, ticksSeen, applied>>
  /\ UNCHANGED restOfSampling

\* _publish_bar: await self.redis.publish('ohlc', json.dumps(bar_data))
PublishBarPublish ==
  /\ aggPc = "publish"
  /\ ohlcChan' = Append(ohlcChan, bar_data)
  /\ aggPc' = "newbar"
  /\ UNCHANGED <<sampling_running, current_bars, bar_keys, aggTick, bar_data,
                 ohlcStore, snapPc, snapTodo, snapshotsSent, ticksSeen, applied>>
  /\ UNCHANGED restOfSampling

\* back in _aggregate_ticks after _publish_bar returned: "Start new bar"
AggregateStartNewBar ==
  /\ aggPc = "newbar"
  /\ current_bars' = [current_bars EXCEPT ![aggTick.symbol] =
       StartNewBar(aggTick.price, aggTick.quantity, MinuteTs(aggTick.timestamp))]
  /\ applied' = [applied EXCEPT ![aggTick.symbol] = <<aggTick>>]
  /\ aggPc' = "listen"
  /\ bar_data' = NoBarData
  /\ UNCHANGED <<sampling_running, bar_keys, aggTick, ohlcStore, ohlcChan,
                 snapPc, snapTodo, snapshotsSent, ticksSeen>>
  /\ UNCHANGED restOfSampling

\* The body of the for loop of _publish_snapshots for one symbol: the bar is
\* read and the snapshot published (when the bar holds data).
SnapshotEmit(symbol) ==
  LET bar == current_bars[symbol]
  IN IF HasCompletedBar(bar)
     THEN /\ snapshotsSent < MaxSnapshots
          /\ snapshotsSent' = snapshotsSent + 1
          /\ ohlcChan' = Append(ohlcChan, SnapshotData(symbol, bar))
     ELSE UNCHANGED <<ohlcChan, snapshotsSent>>

\* A cycle of _publish_snapshots starts: list(self._current_bars.items()) is
\* taken and, with no suspension in between, its first entry is handled.
SnapshotCycle ==
  /\ snapPc = "loop"
  /\ sampling_running
  /\ bar_keys # <<>>
  /\ SnapshotEmit(Head(bar_keys))
  /\ snapTodo' = Tail(bar_keys)
  /\ snapPc' = "publishing"
  /\ UNCHANGED <<sampling_running, current_bars, bar_keys, aggPc, aggTick,
                 bar_data, ohlcStore, ticksSeen, applied>>
  /\ UNCHANGED restOfSampling

\* The publish of the previous entry returned: next entry, or sleep(5)
SnapshotNext ==
  /\ snapPc = "publishing"
  /\ IF snapTodo = <<>>
     THEN /\ snapPc' = "loop"
          /\ UNCHANGED <<ohlcChan, snapTodo, snapshotsSent>>
     ELSE /\ SnapshotEmit(Head(snapTodo))
          /\ snapTodo' = Tail(snapTodo)
          /\ UNCHANGED snapPc
  /\ UNCHANGED <<sampling_running, current_bars, bar_keys, aggPc, aggTick,
                 bar_data, ohlcStore, ticksSeen, applied>>
  /\ UNCHANGED restOfSampling

NextSampling ==
  \/ StartSampling
  \/ StopSampling
  \/ \E tick \in Ticks : AggregateTick(tick)
  \/ PublishBarZadd
  \/ PublishBarZrem
  \/ PublishBarPublish
  \/ AggregateStartNewBar
  \/ SnapshotCycle
  \/ SnapshotNext

StoreErrorSkipsPublish(pc) == "newbar"

\* _publish_bar: the inner `except Exception` around zadd and zremrangebyrank
\* logs and falls through to the publish
AfterStoreError(pc) == "publish"

\* _publish_bar: the zadd or the zremrangebyrank raises
PublishBarStoreFails ==
  /\ aggPc \in {"zadd", "zrem"}
  /\ barFailures < MaxBarFailures
  /\ barFailures' = barFailures + 1
  /\ aggPc' = AfterStoreError(aggPc)
  /\ UNCHANGED <<sampling_running, current_bars, bar_keys, aggTick, bar_data,
                 ohlcStore, ohlcChan, snapPc, snapTodo, snapshotsSent, ticksSeen,
                 applied>>
  /\ UNCHANGED restOfFaults

\* _publish_bar: redis.publish raises; the outer `except Exception` logs it and
\* _publish_bar returns
PublishBarPublishFails ==
  /\ aggPc = "publish"
  /\ barFailures < MaxBarFailures
  /\ barFailures' = barFailures + 1
  /\ aggPc' = "newbar"
  /\ UNCHANGED <<sampling_running, current_bars, bar_keys, aggTick, bar_data,
                 ohlcStore, ohlcChan, snapPc, snapTodo, snapshotsSent, ticksSeen,
                 applied>>
  /\ UNCHANGED restOfFaults

\* the aggregation task with Redis faults (the snapshot timer left at rest)
NextSamplingFaults ==
  \/ StartSampling
  \/ StopSampling
  \/ \E tick \in Ticks : AggregateTick(tick)
  \/ PublishBarZadd
  \/ PublishBarZrem
  \/ PublishBarPublish
  \/ AggregateStartNewBar
  \/ PublishBarStoreFails
  \/ PublishBarPublishFails


(***************************************************************************)
(* BinanceWebSocketClient                                                  *)
(***************************************************************************)
Modes == {"combined", "per_symbol"}

\* What the connection object exposes: a `closed` attribute (legacy
\* websockets), or only `state`, whose str() is 'State.OPEN' or '1' for an
\* open connection depending on how the interpreter prints an IntEnum.
Transports == {"closed_attr", "state_name", "state_int"}

DelayKeptAfterConnect(d) == d

\* connect(): self.reconnect_delay = 1 on success
DelayAfterConnect(d) == InitialReconnectDelay

\* min(delay * 2, self.max_reconnect_delay)
NextDelay(d) == Min2(d * 2, MaxReconnectDelay)

\* The needs_connect probe of run()
NeedsConnect ==
  IF websocket = "none" THEN TRUE
  ELSE IF transport = "closed_attr" THEN websocket = "closed"
  ELSE IF transport = "state_name" THEN websocket # "open"
  ELSE TRUE


\* What a received message holds: a trade with every field, text that is not
\* JSON, or a JSON trade object without the p, q and T fields
MessageKinds == {"trade", "bad_json", "missing_field"}

NoMessage == [symbol |-> "", kind |-> "none", raises |-> FALSE]

\* handle_message: the tick passed to the callback. tick_data["p"] raises
\* KeyError for an absent field and json.loads raises for other text; both are
\* caught and nothing is passed
CombinedForwards(kind) == IF kind = "trade" THEN "complete" ELSE "none"

\* _run_symbol_loop: tick_data.get("p", tick_data.get("price", 0)) and the
\* like fill absent fields with 0 and the current time; json.loads raises
SymbolForwards(kind) ==
  CASE kind = "trade"         -> "complete"
    [] kind = "missing_field" -> "defaults"
    [] OTHER                  -> "none"

DelaysAfterBackoffShared(delays, s) == [x \in Symbols |-> NextDelay(delays[s])]

\* _run_symbol_loop: delay = min(delay * 2, self.max_reconnect_delay) on the
\* loop's own local
DelaysAfterBackoff(delays, s) == [delays EXCEPT ![s] = NextDelay(@)]

HandlerErrorEscapes(pc) == "error_sleep"

\* the except clauses inside message handling: the read loop stays where it is
AfterHandlerError(pc) == pc

InitIngest ==
  /\ mode \in Modes
  \* only the combined loop probes the connection state
  /\ transport \in IF mode = "combined" THEN Transports ELSE {"closed_attr"}
  /\ client_running = FALSE
  /\ websocket = "none"
  /\ websockets = [s \in Symbols |-> "none"]
  /\ reconnect_delay = InitialReconnectDelay
  /\ runPc = "init"
  /\ delay = [s \in Symbols |-> 0]
  /\ symPc = [s \in Symbols |-> "init"]
  /\ closeTasks = {}
  /\ tick_count = [s \in Symbols |-> 0]
  /\ connectFails = 0
  /\ symConnectFails = [s \in Symbols |-> 0]
  /\ handled = 0
  /\ lastMessage = NoMessage
  /\ callbackLog = <<>>

\* run(): self.running = True; combined mode enters the loop, per-symbol mode
\* creates one _run_symbol_loop task per symbol (delay = self.reconnect_delay)
Run ==
  /\ runPc = "init"
  /\ client_running' = TRUE
  /\ IF mode = "combined"
     THEN /\ runPc' = "loop"
          /\ UNCHANGED <<symPc, delay>>
     ELSE /\ runPc' = "gather"
          /\ symPc' = [s \in Symbols |-> "connect"]
          /\ delay' = [s \in Symbols |-> reconnect_delay]
  /\ UNCHANGED <<mode, transport, websocket, websockets, reconnect_delay,
                 closeTasks, tick_count, connectFails, symConnectFails>>
  /\ UNCHANGED restOfIngest

\* stop(): self.running = False and a close() task per per-symbol websocket
Stop ==
  /\ client_running
  /\ client_running' = FALSE
  /\ closeTasks' = {s \in Symbols : websockets[s] # "none"}
  /\ UNCHANGED <<mode, transport, websocket, websockets, reconnect_delay, runPc,
                 delay, symPc, tick_count, connectFails, symConnectFails>>
  /\ UNCHANGED restOfIngest

\* a ws.close() task created by stop() runs
CloseTask(s) ==
  /\ s \in closeTasks
  /\ closeTasks' = closeTasks \ {s}
  /\ websockets' = [websockets EXCEPT ![s] = "closed"]
  /\ UNCHANGED <<mode, transport, client_running, websocket, reconnect_delay,
                 runPc, delay, symPc, tick_count, connectFails, symConnectFails>>
  /\ UNCHANGED restOfIngest

\* combined: top of `while self.running` and the needs_connect probe
RunLoop ==
  /\ runPc = "loop"
  /\ runPc' = IF ~client_running THEN "done"
              ELSE IF NeedsConnect THEN "connecting" ELSE "reading"
  /\ UNCHANGED <<mode, transport, client_running, websocket, websockets,
                 reconnect_delay, delay, symPc, closeTasks, tick_count,
                 connectFails, symConnectFails>>
  /\ UNCHANGED restOfIngest

\* combined: await self.connect() succeeds
ConnectOk ==
  /\ runPc = "connecting"
  /\ websocket' = "open"
  /\ reconnect_delay' = DelayAfterConnect(reconnect_delay)
  /\ connectFails' = 0
  /\ runPc' = "reading"
  /\ UNCHANGED <<mode, transport, client_running, websockets, delay, symPc,
                 closeTasks, tick_count, symConnectFails>>
  /\ UNCHANGED restOfIngest

\* combined: await self.connect() fails; run() starts sleep(self.reconnect_delay)
ConnectFail ==
  /\ runPc = "connecting"
  /\ connectFails < MaxFails
  /\ connectFails' = connectFails + 1
  /\ runPc' = "backoff"
  /\ UNCHANGED <<mode, transport, client_running, websocket, websockets,
                 reconnect_delay, delay, symPc, closeTasks, tick_count,
                 symConnectFails>>
  /\ UNCHANGED restOfIngest

\* combined: the sleep returned; the delay is doubled up to the maximum
BackoffDone ==
  /\ runPc = "backoff"
  /\ reconnect_delay' = NextDelay(reconnect_delay)
  /\ runPc' = "loop"
  /\ UNCHANGED <<mode, transport, client_running, websocket, websockets, delay,
                 symPc, closeTasks, tick_count, connectFails, symConnectFails>>
  /\ UNCHANGED restOfIngest

\* combined: one message of `async for message in self.websocket` is handled
ReadMessage(s) ==
  /\ runPc = "reading"
  /\ websocket = "open"
  /\ tick_count[s] < MaxTickCount
  /\ tick_count' = [tick_count EXCEPT ![s] = @ + 1]
  /\ UNCHANGED <<mode, transport, client_running, websocket, websockets,
                 reconnect_delay, runPc, delay, symPc, closeTasks, connectFails,
                 symConnectFails>>
  /\ UNCHANGED restOfIngest

\* combined: the connection ends; the iteration stops (clean close) or raises
\* (then run() sleeps self.reconnect_delay before looping)
ReadEnds(raised) ==
  /\ runPc = "reading"
  /\ websocket' = "closed"
  /\ runPc' = IF raised THEN "error_sleep" ELSE "loop"
  /\ UNCHANGED <<mode, transport, client_running, websockets, reconnect_delay,
                 delay, symPc, closeTasks, tick_count, connectFails,
                 symConnectFails>>
  /\ UNCHANGED restOfIngest

\* combined: the sleep after a read error returned
ErrorSleepDone ==
  /\ runPc = "error_sleep"
  /\ runPc' = "loop"
  /\ UNCHANGED <<mode, transport, client_running, websocket, websockets,
                 reconnect_delay, delay, symPc, closeTasks, tick_count,
                 connectFails, symConnectFails>>
  /\ UNCHANGED restOfIngest

\* per-symbol: `while self.running` is false
SymLoopExit(s) ==
  /\ symPc[s] = "connect"
  /\ ~client_running
  /\ symPc' = [symPc EXCEPT ![s] = "done"]
  /\ UNCHANGED <<mode, transport, client_running, websocket, websockets,
                 reconnect_delay, runPc, delay, closeTasks, tick_count,
                 connectFails, symConnectFails>>
  /\ UNCHANGED restOfIngest

\* per-symbol: `while self.running` is true; connect_symbol is awaited
SymLoopEnter(s) ==
  /\ symPc[s] = "connect"
  /\ client_running
  /\ symPc' = [symPc EXCEPT ![s] = "connecting"]
  /\ UNCHANGED <<mode, transport, client_running, websocket, websockets,
                 reconnect_delay, runPc, delay, closeTasks, tick_count,
                 connectFails, symConnectFails>>
  /\ UNCHANGED restOfIngest

\* per-symbol: await self.connect_symbol(symbol) succeeds
SymConnectOk(s) ==
  /\ symPc[s] = "connecting"
  /\ reconnect_delay' = DelayAfterConnect(reconnect_delay)
  /\ websockets' = [websockets EXCEPT ![s] = "open"]
  /\ symConnectFails' = [symConnectFails EXCEPT ![s] = 0]
  /\ symPc' = [symPc EXCEPT ![s] = "reading"]
  /\ UNCHANGED <<mode, transport, client_running, websocket, runPc, delay,
                 closeTasks, tick_count, connectFails>>
  /\ UNCHANGED restOfIngest

\* per-symbol: connect_symbol fails; the loop starts sleep(delay)
SymConnectFail(s) ==
  /\ symPc[s] = "connecting"
  /\ symConnectFails[s] < MaxFails
  /\ symConnectFails' = [symConnectFails EXCEPT ![s] = @ + 1]
  /\ symPc' = [symPc EXCEPT ![s] = "backoff"]
  /\ UNCHANGED <<mode, transport, client_running, websocket, websockets,
                 reconnect_delay, runPc, delay, closeTasks, tick_count,
                 connectFails>>
  /\ UNCHANGED restOfIngest

\* per-symbol: the sleep returned; the local delay is doubled up to the maximum
SymBackoffDone(s) ==
  /\ symPc[s] = "backoff"
  /\ delay' = DelaysAfterBackoff(delay, s)
  /\ symPc' = [symPc EXCEPT ![s] = "connect"]
  /\ UNCHANGED <<mode, transport, client_running, websocket, websockets,
                 reconnect_delay, runPc, closeTasks, tick_count, connectFails,
                 symConnectFails>>
  /\ UNCHANGED restOfIngest

\* per-symbol: one message of `async for message in ws` is handled
SymReadMessage(s) ==
  /\ symPc[s] = "reading"
  /\ websockets[s] = "open"
  /\ tick_count[s] < MaxTickCount
  /\ tick_count' = [tick_count EXCEPT ![s] = @ + 1]
  /\ UNCHANGED <<mode, transport, client_running, websocket, websockets,
                 reconnect_delay, runPc, delay, symPc, closeTasks, connectFails,
                 symConnectFails>>
  /\ UNCHANGED restOfIngest

\* per-symbol: the connection ends; clean close loops at once, an error sleeps
\* `delay` first
SymReadEnds(s, raised) ==
  /\ symPc[s] = "reading"
  /\ websockets' = [websockets EXCEPT ![s] = "closed"]
  /\ symPc' = [symPc EXCEPT ![s] = IF raised THEN "error_sleep" ELSE "connect"]
  /\ UNCHANGED <<mode, transport, client_running, websocket, reconnect_delay,
                 runPc, delay, closeTasks, tick_count, connectFails,
                 symConnectFails>>
  /\ UNCHANGED restOfIngest

\* per-symbol: the sleep after a read error returned
SymErrorSleepDone(s) ==
  /\ symPc[s] = "error_sleep"
  /\ symPc' = [symPc EXCEPT ![s] = "connect"]
  /\ UNCHANGED <<mode, transport, client_running, websocket, websockets,
                 reconnect_delay, runPc, delay, closeTasks, tick_count,
                 connectFails, symConnectFails>>
  /\ UNCHANGED restOfIngest

\* per-symbol: asyncio.gather returns when every symbol loop has returned
GatherDone ==
  /\ runPc = "gather"
  /\ \A s \in Symbols : symPc[s] = "done"
  /\ runPc' = "done"
  /\ UNCHANGED <<mode, transport, client_running, websocket, websockets,
                 reconnect_delay, delay, symPc, closeTasks, tick_count,
                 connectFails, symConnectFails>>
  /\ UNCHANGED restOfIngest

NextIngest ==
  \/ Run
  \/ Stop
  \/ \E s \in Symbols : CloseTask(s)
  \/ RunLoop
  \/ ConnectOk
  \/ ConnectFail
  \/ BackoffDone
  \/ \E s \in Symbols : ReadMessage(s)
  \/ \E raised \in BOOLEAN : ReadEnds(raised)
  \/ ErrorSleepDone
  \/ \E s \in Symbols : SymLoopExit(s)
  \/ \E s \in Symbols : SymLoopEnter(s)
  \/ \E s \in Symbols : SymConnectOk(s)
  \/ \E s \in Symbols : SymConnectFail(s)
  \/ \E s \in Symbols : SymBackoffDone(s)
  \/ \E s \in Symbols : SymReadMessage(s)
  \/ \E s \in Symbols : \E raised \in BOOLEAN : SymReadEnds(s, raised)
  \/ \E s \in Symbols : SymErrorSleepDone(s)
  \/ GatherDone


\* combined: one message of `async for message in self.websocket`, of a given
\* kind, handled by handle_message with a callback that returns or raises
HandleMessage(s, kind, raises) ==
  LET forwards == CombinedForwards(kind)
  IN
  /\ runPc = "reading"
  /\ websocket = "open"
  /\ handled < MaxMessages
  /\ raises => forwards # "none"
  /\ handled' = handled + 1
  /\ lastMessage' = [symbol |-> s, kind |-> kind, raises |-> raises]
  /\ tick_count' = IF forwards # "none" THEN [tick_count EXCEPT ![s] = @ + 1]
                   ELSE tick_count
  /\ callbackLog' = IF forwards # "none"
                    THEN Append(callbackLog, [symbol |-> s, tick |-> forwards])
                    ELSE callbackLog
  /\ runPc' = IF kind # "trade" \/ raises THEN AfterHandlerError(runPc) ELSE runPc
  /\ UNCHANGED <<mode, transport, client_running, websocket, websockets,
                 reconnect_delay, delay, symPc, closeTasks, connectFails,
                 symConnectFails>>
  /\ UNCHANGED restOfClient

\* per-symbol: one message of `async for message in ws`, handled in the loop
SymHandleMessage(s, kind, raises) ==
  LET forwards == SymbolForwards(kind)
  IN
  /\ symPc[s] = "reading"
  /\ websockets[s] = "open"
  /\ handled < MaxMessages
  /\ raises => forwards # "none"
  /\ handled' = handled + 1
  /\ lastMessage' = [symbol |-> s, kind |-> kind, raises |-> raises]
  /\ tick_count' = IF forwards # "none" THEN [tick_count EXCEPT ![s] = @ + 1]
                   ELSE tick_count
  /\ callbackLog' = IF forwards # "none"
                    THEN Append(callbackLog, [symbol |-> s, tick |-> forwards])
                    ELSE callbackLog
  /\ symPc' = IF kind = "bad_json" \/ raises
              THEN [symPc EXCEPT ![s] = AfterHandlerError(@)] ELSE symPc
  /\ UNCHANGED <<mode, transport, client_running, websocket, websockets,
                 reconnect_delay, runPc, delay, closeTasks, connectFails,
                 symConnectFails>>
  /\ UNCHANGED restOfClient

\* The client with connects that succeed, and the contents of its messages
NextHandling ==
  \/ Run
  \/ Stop
  \/ \E s \in Symbols : CloseTask(s)
  \/ RunLoop
  \/ ConnectOk
  \/ \E s \in Symbols : \E kind \in MessageKinds : \E raises \in BOOLEAN :
       HandleMessage(s, kind, raises)
  \/ \E raised \in BOOLEAN : ReadEnds(raised)
  \/ ErrorSleepDone
  \/ \E s \in Symbols : SymLoopExit(s)
  \/ \E s \in Symbols : SymLoopEnter(s)
  \/ \E s \in Symbols : SymConnectOk(s)
  \/ \E s \in Symbols : \E kind \in MessageKinds : \E raises \in BOOLEAN :
       SymHandleMessage(s, kind, raises)
  \/ \E s \in Symbols : \E raised \in BOOLEAN : SymReadEnds(s, raised)
  \/ \E s \in Symbols : SymErrorSleepDone(s)
  \/ GatherDone

(***************************************************************************)
(* Fan-out: websocket_handler.py (set registry, broadcast_tick,            *)
(* broadcast_alert) and the /ws/live forwarder of backend/main.py          *)
(***************************************************************************)
Conns == 1..NumConns
Kinds == {"tick", "alert"}

\* The broadcast call in progress. broadcast_alert is awaited by the single
\* alert-check job and broadcast_tick has no caller in the repository: one call
\* runs at a time. kind is "tick" or "alert"; pc is "idle" (no call yet),
\* "next" (at the for statement), "send" (awaiting send_text to cur), "done"
\* (returned) or "raised" (left by an exception); the locals of a call that has
\* ended are dropped. size and todo are the set iterator of `for connection in
\* active_connections`: the size the set had when the iterator was made, and the
\* entries it has not yet passed. sent, failed and throughout are history: the
\* sends that returned, the connections whose send raised, and the connections
\* that were registered during the whole call.
IdleCall == [kind |-> "none", pc |-> "idle", size |-> 0, todo |-> {}, cur |-> 0,
             disconnected |-> {}, sent |-> [c \in Conns |-> 0],
             failed |-> {}, throughout |-> {}]

EndedCall(k, how) == [IdleCall EXCEPT !.kind = k, !.pc = how]

InCall == call.pc \in {"next", "send"}

\* send_text / send_json raises on a broken connection and on one whose
\* handler has returned (the socket is closed)
SendRaises(c) == c \in broken \/ handlerPc[c] \in {"closed", "raised"}

\* The iterator of the call in progress after c joined the set: the new entry
\* lies ahead of the iterator's position in the hash table, or behind it
CallAfterAdd(c, ahead) ==
  IF InCall /\ ahead THEN [call EXCEPT !.todo = @ \cup {c}] ELSE call

\* ... and after the connections `gone` left the set
CallAfterRemove(gone) ==
  IF InCall
  THEN [call EXCEPT !.todo = @ \ gone, !.throughout = @ \ gone]
  ELSE call

\* the `except:` clause of the two broadcasts: broadcast_tick collects the
\* connection in `disconnected`, broadcast_alert passes
OnSendError(k, disconnected, c) ==
  IF k = "tick" THEN disconnected \cup {c} ELSE disconnected

IterStays(todo, c) == todo

\* the set iterator has yielded c: c is behind its position from now on
IterAdvance(todo, c) == todo \ {c}

InitFanout ==
  /\ active_connections = {}
  /\ handlerPc = [c \in Conns |-> "new"]
  /\ broken = {}
  /\ call = IdleCall
  /\ live_connections = {}
  /\ livePc = [c \in Conns |-> "new"]

\* websocket_endpoint: accept() returned, the connection is added to the set
\* and the initial send_json is awaited
HandlerAccept(c) ==
  /\ handlerPc[c] = "new"
  /\ livePc[c] = "new"
  /\ active_connections' = active_connections \cup {c}
  /\ handlerPc' = [handlerPc EXCEPT ![c] = "greeting"]
  /\ \E ahead \in BOOLEAN : call' = CallAfterAdd(c, ahead)
  /\ UNCHANGED <<broken, live_connections, livePc>>
  /\ UNCHANGED restOfFanout

\* the peer goes away for good: every later send to it raises
Break(c) ==
  /\ c \notin broken
  /\ \/ handlerPc[c] \in {"greeting", "open"}
     \/ livePc[c] \in {"greeting", "listen", "send"}
  /\ broken' = broken \cup {c}
  /\ UNCHANGED <<active_connections, handlerPc, call, live_connections, livePc>>
  /\ UNCHANGED restOfFanout

\* websocket_endpoint: the initial send returned; the receive loop starts
HandlerGreeted(c) ==
  /\ handlerPc[c] = "greeting"
  /\ ~SendRaises(c)
  /\ handlerPc' = [handlerPc EXCEPT ![c] = "open"]
  /\ UNCHANGED <<active_connections, broken, call, live_connections, livePc>>
  /\ UNCHANGED restOfFanout

\* websocket_endpoint leaves its try block (the initial send raised, or
\* receive_text raised in the loop) and runs `finally:
\* active_connections.remove(websocket)`, which raises KeyError when
\* broadcast_tick has discarded the connection already
HandlerExit(c) ==
  /\ \/ handlerPc[c] = "greeting" /\ SendRaises(c)
     \/ handlerPc[c] = "open"
  /\ IF c \in active_connections
     THEN /\ active_connections' = active_connections \ {c}
          /\ call' = CallAfterRemove({c})
          /\ handlerPc' = [handlerPc EXCEPT ![c] = "closed"]
     ELSE /\ handlerPc' = [handlerPc EXCEPT ![c] = "raised"]
          /\ UNCHANGED <<active_connections, call>>
  /\ UNCHANGED <<broken, live_connections, livePc>>
  /\ UNCHANGED restOfFanout

\* broadcast_tick(tick) / broadcast_alert(alert) is called: it returns at once
\* on an empty set, else the for statement makes its iterator and, with no
\* suspension in between, takes the first connection and awaits the send to it
BroadcastCall(k) ==
  /\ ~InCall
  /\ IF active_connections = {}
     THEN call' = EndedCall(k, "done")
     ELSE \E c \in active_connections :
            call' = [IdleCall EXCEPT !.kind = k, !.pc = "send", !.cur = c,
                                     !.size = Cardinality(active_connections),
                                     !.todo = IterAdvance(active_connections, c),
                                     !.throughout = active_connections]
  /\ UNCHANGED <<active_connections, handlerPc, broken, live_connections, livePc>>
  /\ UNCHANGED restOfFanout

\* the send has ended and the call is resumed: the for statement asks its
\* iterator for the next connection: RuntimeError
\* ("Set changed size during iteration") when the set's size differs from the
\* size at the start; the next entry; or the end of the loop, after which
\* broadcast_tick discards the connections it collected
BroadcastNext ==
  /\ call.pc = "next"
  /\ IF Cardinality(active_connections) # call.size
     THEN /\ call' = EndedCall(call.kind, "raised")
          /\ UNCHANGED active_connections
     ELSE IF call.todo # {}
     THEN /\ \E c \in call.todo :
               call' = [call EXCEPT !.pc = "send", !.cur = c,
                                    !.todo = IterAdvance(@, c)]
          /\ UNCHANGED active_connections
     ELSE /\ active_connections' = active_connections \ call.disconnected
          /\ call' = EndedCall(call.kind, "done")
  /\ UNCHANGED <<handlerPc, broken, live_connections, livePc>>
  /\ UNCHANGED restOfFanout

\* await connection.send_text(message) returns or raises
BroadcastSend ==
  /\ call.pc = "send"
  /\ LET c == call.cur
     IN IF SendRaises(c)
        THEN call' = [call EXCEPT !.pc = "next",
                        !.failed = @ \cup {c},
                        !.disconnected = OnSendError(call.kind, @, c)]
        ELSE call' = [call EXCEPT !.pc = "next", !.sent[c] = @ + 1]
  /\ UNCHANGED <<active_connections, handlerPc, broken, live_connections, livePc>>
  /\ UNCHANGED restOfFanout

\* /ws/live: accept() returned, the connection is appended to the list and
\* the initial send_json is awaited
LiveAccept(c) ==
  /\ livePc[c] = "new"
  /\ handlerPc[c] = "new"
  /\ live_connections' = live_connections \cup {c}
  /\ livePc' = [livePc EXCEPT ![c] = "greeting"]
  /\ UNCHANGED <<active_connections, handlerPc, broken, call>>
  /\ UNCHANGED restOfFanout

\* /ws/live: the initial send returned and the pub/sub channels are subscribed
LiveGreeted(c) ==
  /\ livePc[c] = "greeting"
  /\ c \notin broken
  /\ livePc' = [livePc EXCEPT ![c] = "listen"]
  /\ UNCHANGED <<active_connections, handlerPc, broken, call, live_connections>>
  /\ UNCHANGED restOfFanout

\* /ws/live: pubsub.listen() yields a message; send_json is awaited
LiveMessage(c) ==
  /\ livePc[c] = "listen"
  /\ livePc' = [livePc EXCEPT ![c] = "send"]
  /\ UNCHANGED <<active_connections, handlerPc, broken, call, live_connections>>
  /\ UNCHANGED restOfFanout

\* /ws/live: send_json returned, or raised into the `except Exception` inside
\* the loop, which logs: either way the loop goes on listening
LiveSendDone(c) ==
  /\ livePc[c] = "send"
  /\ livePc' = [livePc EXCEPT ![c] = "listen"]
  /\ UNCHANGED <<active_connections, handlerPc, broken, call, live_connections>>
  /\ UNCHANGED restOfFanout

\* /ws/live leaves its try block (the initial send raised, or pubsub.listen()
\* raised) and runs `finally: active_connections.remove(websocket)`
LiveExit(c) ==
  /\ \/ livePc[c] = "greeting" /\ c \in broken
     \/ livePc[c] = "listen"
  /\ live_connections' = live_connections \ {c}
  /\ livePc' = [livePc EXCEPT ![c] = "closed"]
  /\ UNCHANGED <<active_connections, handlerPc, broken, call>>
  /\ UNCHANGED restOfFanout

NextFanout ==
  \/ \E c \in Conns : HandlerAccept(c)
  \/ \E c \in Conns : Break(c)
  \/ \E c \in Conns : HandlerGreeted(c)
  \/ \E c \in Conns : HandlerExit(c)
  \/ \E k \in Kinds : BroadcastCall(k)
  \/ BroadcastNext
  \/ BroadcastSend
  \/ \E c \in Conns : LiveAccept(c)
  \/ \E c \in Conns : LiveGreeted(c)
  \/ \E c \in Conns : LiveMessage(c)
  \/ \E c \in Conns : LiveSendDone(c)
  \/ \E c \in Conns : LiveExit(c)

(***************************************************************************)
(* AlertManager.trigger_alert (src/alerting/alert_manager.py)              *)
(* An alert is identified by its creation number.                          *)
(***************************************************************************)
AppendNoTrim(history, a) == Append(history, a)

\* self.alert_history.append(alert); if len(...) > 100: self.alert_history.pop(0)
AppendToHistory(history, a) ==
  LET h == Append(history, a)
  IN IF Len(h) > HistoryCap THEN Tail(h) ELSE h

InitAlerts ==
  /\ alert_history = <<>>
  /\ triggerPc = "idle"
  /\ alert = 0
  /\ alertsCreated = 0
  /\ insertFailures = 0
  /\ appended = <<>>

\* check_all_rules calls trigger_alert for a rule whose check is true: the
\* alert dict is built and db.insert_alert(alert) is awaited
TriggerAlert ==
  /\ triggerPc = "idle"
  /\ alertsCreated < MaxAlerts
  /\ alertsCreated' = alertsCreated + 1
  /\ alert' = alertsCreated + 1
  /\ triggerPc' = "insert"
  /\ UNCHANGED <<alert_history, insertFailures, appended>>
  /\ UNCHANGED restOfAlerts

\* db.insert_alert returned: the alert is appended, the history trimmed, and
\* broadcast_alert(alert) is awaited
InsertAlertOk ==
  /\ triggerPc = "insert"
  /\ alert_history' = AppendToHistory(alert_history, alert)
  /\ appended' = Append(appended, alert)
  /\ triggerPc' = "broadcast"
  /\ UNCHANGED <<alert, alertsCreated, insertFailures>>
  /\ UNCHANGED restOfAlerts

\* db.insert_alert raised: trigger_alert is left before the append
InsertAlertFails ==
  /\ triggerPc = "insert"
  /\ insertFailures < MaxInsertFailures
  /\ insertFailures' = insertFailures + 1
  /\ triggerPc' = "idle"
  /\ UNCHANGED <<alert_history, alert, alertsCreated, appended>>
  /\ UNCHANGED restOfAlerts

\* broadcast_alert returned or raised: trigger_alert is over
BroadcastAlertOver ==
  /\ triggerPc = "broadcast"
  /\ triggerPc' = "idle"
  /\ UNCHANGED <<alert_history, alert, alertsCreated, insertFailures, appended>>
  /\ UNCHANGED restOfAlerts

NextAlerts ==
  \/ TriggerAlert
  \/ InsertAlertOk
  \/ InsertAlertFails
  \/ BroadcastAlertOver

(***************************************************************************)
(* Bounded windows: RedisManager.add_tick, RedisManager.store_ohlc,        *)
(* SamplingEngine._publish_bar (ZADD then ZREMRANGEBYRANK on one key) and  *)
(* Database.insert_ohlc (INSERT OR REPLACE under UNIQUE(symbol,timestamp)).*)
(* An entry is <<timestamp, contents>>: the JSON text of a tick or bar is  *)
(* the Redis member, its timestamp the score.                              *)
(***************************************************************************)
StoreKinds == {"ticks", "ohlc", "final", "db"}
Writers == {"w1", "w2"}
Contents == {0, 1}

\* the count the trim of each Redis store keeps (0 -1001, 0 -101, 0 -501)
KeepOf(kind) ==
  CASE kind = "ticks" -> TickKeep
    [] kind = "ohlc"  -> RedisOhlcKeep
    [] kind = "final" -> OhlcKeep
    [] OTHER          -> 0

\* What the key holds when the program starts: Redis outlives the program, so
\* the key is empty or holds what earlier runs left, here one entry short of a
\* full window
LeftByEarlierRuns(kind) ==
  {<<>>} \cup {[i \in 1..(KeepOf(kind) - 1) |-> <<i, 0>>] : x \in {kind} \ {"db"}}

\* rank order of a sorted set: by score, ties by member
RanksBefore(a, b) == a[1] < b[1] \/ (a[1] = b[1] /\ a[2] < b[2])

\* redis ZADD key {member: score} on the set kept in rank order: a member
\* already present stays once (same score), a new member takes its rank
ZAddRanked(z, m) ==
  IF \E i \in 1..Len(z) : z[i] = m THEN z
  ELSE LET k == Cardinality({i \in 1..Len(z) : RanksBefore(z[i], m)})
       IN [i \in 1..(Len(z) + 1) |->
             IF i <= k THEN z[i] ELSE IF i = k + 1 THEN m ELSE z[i - 1]]

ZTrimNewest(z, keep) ==
  IF Len(z) <= keep THEN z ELSE SubSeq(z, 1, keep)

\* redis ZREMRANGEBYRANK key 0 -(keep+1): the keep highest-ranked entries stay
ZTrimRanked(z, keep) ==
  IF Len(z) <= keep THEN z ELSE SubSeq(z, Len(z) - keep + 1, Len(z))

\* INSERT OR REPLACE with UNIQUE(symbol, timestamp): the row of that timestamp
\* is replaced
InsertOrReplace(rows, m) == {r \in rows : r[1] # m[1]} \cup {m}

InitStore ==
  /\ storeKind \in StoreKinds
  /\ zrange \in LeftByEarlierRuns(storeKind)
  /\ dbRows = {}
  /\ wPc = [w \in Writers |-> "idle"]
  /\ wMember = [w \in Writers |-> <<0, 0>>]
  /\ firstTs = Len(zrange) + 1
  /\ nextTs = firstTs
  /\ rewrites = 0
  /\ overlaps = 0

\* a call begins; one that begins while another call is in progress is counted
BeginCall(w) ==
  /\ wPc[w] = "idle"
  /\ IF \E o \in Writers \ {w} : wPc[o] # "idle"
     THEN overlaps < MaxOverlaps /\ overlaps' = overlaps + 1
     ELSE overlaps' = overlaps

\* a call of add_tick / store_ohlc / _publish_bar / insert_ohlc with an entry
\* of a new timestamp
StoreCallNew(w) ==
  /\ BeginCall(w)
  /\ nextTs < firstTs + MaxWrites
  /\ wMember' = [wMember EXCEPT ![w] = <<nextTs, 0>>]
  /\ nextTs' = nextTs + 1
  /\ wPc' = [wPc EXCEPT ![w] = IF storeKind = "db" THEN "insert" ELSE "zadd"]
  /\ UNCHANGED <<storeKind, zrange, dbRows, firstTs, rewrites>>
  /\ UNCHANGED restOfStore

\* ... with an entry of the timestamp written last, of either contents
StoreCallAgain(w, contents) ==
  /\ BeginCall(w)
  /\ nextTs > firstTs
  /\ rewrites < MaxRewrites
  /\ rewrites' = rewrites + 1
  /\ wMember' = [wMember EXCEPT ![w] = <<nextTs - 1, contents>>]
  /\ wPc' = [wPc EXCEPT ![w] = IF storeKind = "db" THEN "insert" ELSE "zadd"]
  /\ UNCHANGED <<storeKind, zrange, dbRows, firstTs, nextTs>>
  /\ UNCHANGED restOfStore

\* add_tick with a late tick: its timestamp, 0, is lower than every timestamp
\* written before (a tick carries the trade time of the exchange, and ticks
\* reach the processor in arrival order)
LateEntry == <<0, 1>>

StoreCallLate(w) ==
  /\ storeKind = "ticks"
  /\ BeginCall(w)
  /\ wMember' = [wMember EXCEPT ![w] = LateEntry]
  /\ wPc' = [wPc EXCEPT ![w] = IF storeKind = "db" THEN "insert" ELSE "zadd"]
  /\ UNCHANGED <<storeKind, zrange, dbRows, firstTs, nextTs, rewrites>>
  /\ UNCHANGED restOfStore

\* await redis.zadd(key, {json: timestamp}) has returned
StoreZadd(w) ==
  /\ wPc[w] = "zadd"
  /\ zrange' = ZAddRanked(zrange, wMember[w])
  /\ wPc' = [wPc EXCEPT ![w] = "zrem"]
  /\ UNCHANGED <<storeKind, dbRows, wMember, firstTs, nextTs, rewrites, overlaps>>
  /\ UNCHANGED restOfStore

\* await redis.zremrangebyrank(key, 0, -(keep+1)) has returned
StoreZrem(w) ==
  /\ wPc[w] = "zrem"
  /\ zrange' = ZTrimRanked(zrange, KeepOf(storeKind))
  /\ wPc' = [wPc EXCEPT ![w] = "idle"]
  /\ UNCHANGED <<storeKind, dbRows, wMember, firstTs, nextTs, rewrites, overlaps>>
  /\ UNCHANGED restOfStore

\* insert_ohlc: the INSERT OR REPLACE statement and the commit
StoreInsert(w) ==
  /\ wPc[w] = "insert"
  /\ dbRows' = InsertOrReplace(dbRows, wMember[w])
  /\ wPc' = [wPc EXCEPT ![w] = "idle"]
  /\ UNCHANGED <<storeKind, zrange, wMember, firstTs, nextTs, rewrites,
               overlaps>>
  /\ UNCHANGED restOfStore

NextStore ==
  \/ \E w \in Writers : StoreCallNew(w)
  \/ \E w \in Writers : \E contents \in Contents : StoreCallAgain(w, contents)
  \/ \E w \in Writers : StoreCallLate(w)
  \/ \E w \in Writers : StoreZadd(w)
  \/ \E w \in Writers : StoreZrem(w)
  \/ \E w \in Writers : StoreInsert(w)

(***************************************************************************)
(* SamplingEngine task lifecycle: start_sampling, stop and the restart of  *)
(* _aggregate_ticks after an error. A task is "unborn", "starting"         *)
(* (created, not yet subscribed), "listen" (subscribed to 'market_data'),  *)
(* "sleep" (in sleep(5) after an error), "done" or "cancelled".            *)
(***************************************************************************)
TaskIds == 1..MaxTasks

Unborn == {t \in TaskIds : agg_tasks[t] = "unborn"}

\* asyncio.create_task(self._aggregate_ticks())
NewTask == CHOOSE t \in Unborn : \A u \in Unborn : t <= u

InitLifecycle ==
  /\ engine_running = FALSE
  /\ agg_tasks = [t \in TaskIds |-> "unborn"]
  /\ sampling_task = 0
  /\ inbox = [t \in TaskIds |-> <<>>]
  /\ published = 0
  /\ listenErrors = 0
  /\ tickLog = <<>>

\* start_sampling(): _running = True, the new task is kept in _sampling_task
StartSamplingTask ==
  /\ Unborn # {}
  /\ engine_running' = TRUE
  /\ agg_tasks' = [agg_tasks EXCEPT ![NewTask] = "starting"]
  /\ sampling_task' = NewTask
  /\ UNCHANGED <<inbox, published, listenErrors, tickLog>>
  /\ UNCHANGED restOfLifecycle

\* stop(): _running = False and self._sampling_task.cancel(); a task that has
\* not finished is cancelled at its suspension point
StopSamplingTask ==
  /\ engine_running' = FALSE
  /\ agg_tasks' = IF sampling_task # 0
                     /\ agg_tasks[sampling_task] \in {"starting", "listen", "sleep"}
                  THEN [agg_tasks EXCEPT ![sampling_task] = "cancelled"]
                  ELSE agg_tasks
  /\ inbox' = IF sampling_task # 0 THEN [inbox EXCEPT ![sampling_task] = <<>>]
              ELSE inbox
  /\ UNCHANGED <<sampling_task, published, listenErrors, tickLog>>
  /\ UNCHANGED restOfLifecycle

\* await pubsub.subscribe("market_data") has returned
TaskSubscribed(t) ==
  /\ agg_tasks[t] = "starting"
  /\ agg_tasks' = [agg_tasks EXCEPT ![t] = "listen"]
  /\ UNCHANGED <<engine_running, sampling_task, inbox, published, listenErrors,
                 tickLog>>
  /\ UNCHANGED restOfLifecycle

\* a tick is published on 'market_data': every subscription receives it
PublishTick ==
  /\ published < MaxPublished
  /\ published' = published + 1
  /\ inbox' = [t \in TaskIds |->
                 IF agg_tasks[t] = "listen" THEN Append(inbox[t], published + 1)
                 ELSE inbox[t]]
  /\ UNCHANGED <<engine_running, agg_tasks, sampling_task, listenErrors, tickLog>>
  /\ UNCHANGED restOfLifecycle

\* the body of `async for message in pubsub.listen()` for one message: the
\* loop is left when _running is false, otherwise the tick is applied to a bar
TaskHandles(t) ==
  /\ agg_tasks[t] = "listen"
  /\ inbox[t] # <<>>
  /\ inbox' = [inbox EXCEPT ![t] = Tail(@)]
  /\ IF engine_running
     THEN /\ tickLog' = Append(tickLog, <<t, Head(inbox[t])>>)
          /\ UNCHANGED agg_tasks
     ELSE /\ agg_tasks' = [agg_tasks EXCEPT ![t] = "done"]
          /\ UNCHANGED tickLog
  /\ UNCHANGED <<engine_running, sampling_task, published, listenErrors>>
  /\ UNCHANGED restOfLifecycle

\* pubsub.listen() raises: the outer except logs and sleeps 5s
TaskListenError(t) ==
  /\ agg_tasks[t] = "listen"
  /\ listenErrors < MaxListenErrors
  /\ listenErrors' = listenErrors + 1
  /\ agg_tasks' = [agg_tasks EXCEPT ![t] = "sleep"]
  /\ inbox' = [inbox EXCEPT ![t] = <<>>]
  /\ UNCHANGED <<engine_running, sampling_task, published, tickLog>>
  /\ UNCHANGED restOfLifecycle

\* after the sleep: if self._running: asyncio.create_task(self._aggregate_ticks())
\* (the new task is kept nowhere), and the old task ends
TaskRestart(t) ==
  /\ agg_tasks[t] = "sleep"
  /\ engine_running => Unborn # {}
  /\ agg_tasks' = IF engine_running
                  THEN [agg_tasks EXCEPT ![t] = "done", ![NewTask] = "starting"]
                  ELSE [agg_tasks EXCEPT ![t] = "done"]
  /\ UNCHANGED <<engine_running, sampling_task, inbox, published, listenErrors,
                 tickLog>>
  /\ UNCHANGED restOfLifecycle

NextLifecycle ==
  \/ StartSamplingTask
  \/ StopSamplingTask
  \/ PublishTick
  \/ \E t \in TaskIds : TaskSubscribed(t)
  \/ \E t \in TaskIds : TaskHandles(t)
  \/ \E t \in TaskIds : TaskListenError(t)
  \/ \E t \in TaskIds : TaskRestart(t)

(***************************************************************************)
(* DataProcessor.process_tick and publish_tick (ingestion/data_processor). *)
(* A tick is the number of its call, its symbol ("" when absent) and the   *)
(* set of required fields it carries. The read loop awaits the callback:   *)
(* one call is in progress at a time.                                      *)
(***************************************************************************)
Required == <<"symbol", "price", "quantity", "timestamp">>

AllFields == SeqRange(Required)

\* the ticks handed to process_tick: complete, or lacking one required field
FieldSets == {AllFields} \cup {AllFields \ {f} : f \in AllFields}

NoProcTick == [id |-> 0, symbol |-> "", timestamp |-> None, fields |-> {},
               processed_at |-> FALSE]

FirstMissingButTimestamp(fields) ==
  LET missing == {i \in 1..(Len(Required) - 1) : Required[i] \notin fields}
  IN IF missing = {} THEN "none"
     ELSE Required[CHOOSE i \in missing : \A j \in missing : i <= j]

\* for field in required: if field not in tick: raise ValueError
FirstMissing(fields) ==
  LET missing == {i \in 1..Len(Required) : Required[i] \notin fields}
  IN IF missing = {} THEN "none"
     ELSE Required[CHOOSE i \in missing : \A j \in missing : i <= j]

BufferPrepend(buffer, symbol, id) == [buffer EXCEPT ![symbol] = <<id>> \o @]

\* self.tick_buffer[symbol].append(tick)
BufferAppend(buffer, symbol, id) == [buffer EXCEPT ![symbol] = Append(@, id)]

\* self.processing_stats["ticks_processed"] += 1
CountProcessed(stats) == [stats EXCEPT !.ticks_processed = @ + 1]

\* self.processing_stats["errors"] += 1
CountError(stats) == [stats EXCEPT !.errors = @ + 1]

RedisErrorPropagates(stats) == CountError(stats)

\* publish_tick's except Exception logs the error and returns: process_tick
\* goes on to count the tick as processed
AfterRedisError(stats) == CountProcessed(stats)

\* the timestamps of the ticks handed to process_tick (not in arrival order)
TickTimes == {1, 2}

NoRecent == [symbol |-> "", count |-> 0, raised |-> FALSE, ticks |-> <<>>]

ZRangePlain(z, start, stop) ==
  LET n == Len(z)
      first == IF start < 0 THEN Max2(n + start, 0) ELSE start
      last == IF stop < 0 THEN n + stop ELSE Min2(stop, n - 1)
  IN IF first > last THEN <<>>
     ELSE [i \in 1..(last - first + 1) |-> z[first + i]]

\* redis ZREVRANGE key start stop on the set kept in rank order: the entries
\* of ranks start..stop counted from the highest score (negative indices count
\* from the other end)
ZRevRange(z, start, stop) ==
  LET n == Len(z)
      first == IF start < 0 THEN Max2(n + start, 0) ELSE start
      last == IF stop < 0 THEN n + stop ELSE Min2(stop, n - 1)
  IN IF first > last THEN <<>>
     ELSE [i \in 1..(last - first + 1) |-> z[n - (first + i - 1)]]

InitProcessor ==
  /\ tick_buffer = [s \in Symbols |-> <<>>]
  /\ processing_stats = [ticks_processed |-> 0, errors |-> 0]
  /\ procPc = "idle"
  /\ procTick = NoProcTick
  /\ procResult = "none"
  /\ tickStream = <<>>
  /\ tickStore = [s \in Symbols |-> <<>>]
  /\ calls = 0
  /\ redisFailures = 0
  /\ redisRaised = FALSE
  /\ statsAtCall = processing_stats
  /\ recent = NoRecent

\* process_tick up to its first await: the stamp, the validation, and either
\* the ValueError (counted and re-raised) or the append and publish_tick
ProcessTick(symbol, timestamp, fields) ==
  LET tick == [id |-> calls + 1,
               symbol |-> IF "symbol" \in fields THEN symbol ELSE "",
               timestamp |-> IF "timestamp" \in fields THEN timestamp ELSE None,
               fields |-> fields, processed_at |-> TRUE]
  IN
  /\ procPc = "idle"
  /\ calls < MaxCalls
  /\ calls' = calls + 1
  /\ procTick' = tick
  /\ statsAtCall' = processing_stats
  /\ redisRaised' = FALSE
  /\ IF FirstMissing(fields) # "none"
     THEN /\ processing_stats' = CountError(processing_stats)
          /\ procResult' = "raised"
          /\ UNCHANGED <<tick_buffer, procPc>>
     ELSE /\ tick_buffer' = BufferAppend(tick_buffer, symbol, tick.id)
          /\ procPc' = "publish"
          /\ procResult' = "none"
          /\ UNCHANGED processing_stats
  /\ UNCHANGED <<tickStream, tickStore, redisFailures>>
  /\ UNCHANGED recent
  /\ UNCHANGED restOfProcessor

\* publish_tick: await self.redis.publish("tick_stream", message) returned
TickPublished ==
  /\ procPc = "publish"
  /\ tickStream' = Append(tickStream, procTick)
  /\ procPc' = "zadd"
  /\ UNCHANGED <<tick_buffer, processing_stats, procTick, procResult, tickStore,
                 calls, redisFailures, redisRaised, statsAtCall>>
  /\ UNCHANGED recent
  /\ UNCHANGED restOfProcessor

\* add_tick: await self.redis.zadd(key, {tick_json: timestamp}) returned
TickZadd ==
  /\ procPc = "zadd"
  /\ tickStore' = [tickStore EXCEPT ![procTick.symbol] =
                     ZAddRanked(@, <<procTick.timestamp, procTick.id>>)]
  /\ procPc' = "zrem"
  /\ UNCHANGED <<tick_buffer, processing_stats, procTick, procResult, tickStream,
                 calls, redisFailures, redisRaised, statsAtCall>>
  /\ UNCHANGED recent
  /\ UNCHANGED restOfProcessor

\* add_tick: await self.redis.zremrangebyrank(key, 0, -1001) returned;
\* publish_tick returns, the tick is counted and process_tick returns it
TickZrem ==
  /\ procPc = "zrem"
  /\ tickStore' = [tickStore EXCEPT ![procTick.symbol] = ZTrimRanked(@, TickKeep)]
  /\ processing_stats' = CountProcessed(processing_stats)
  /\ procResult' = "returned"
  /\ procPc' = "idle"
  /\ UNCHANGED <<tick_buffer, procTick, tickStream, calls, redisFailures,
                 redisRaised, statsAtCall>>
  /\ UNCHANGED recent
  /\ UNCHANGED restOfProcessor

\* a Redis call of publish_tick raises: publish_tick logs it and returns, the
\* tick is counted and process_tick returns it
TickRedisFails ==
  /\ procPc \in {"publish", "zadd", "zrem"}
  /\ redisFailures < MaxRedisFailures
  /\ redisFailures' = redisFailures + 1
  /\ redisRaised' = TRUE
  /\ processing_stats' = AfterRedisError(processing_stats)
  /\ procResult' = "returned"
  /\ procPc' = "idle"
  /\ UNCHANGED <<tick_buffer, procTick, tickStream, tickStore, calls, statsAtCall>>
  /\ UNCHANGED recent
  /\ UNCHANGED restOfProcessor

\* DataProcessor.get_recent_ticks(symbol, count): RedisManager.get_recent_ticks
\* awaits zrevrange(key, 0, count - 1) and decodes the items; an error of the
\* read is caught by `except Exception`, which returns []
GetRecentTicks(symbol, count, fails) ==
  /\ recent' = [symbol |-> symbol, count |-> count, raised |-> fails,
                ticks |-> IF fails THEN <<>>
                          ELSE ZRevRange(tickStore[symbol], 0, count - 1)]
  /\ UNCHANGED <<tick_buffer, processing_stats, procPc, procTick, procResult,
                 tickStream, tickStore, calls, redisFailures, redisRaised,
                 statsAtCall>>
  /\ UNCHANGED restOfProcessor

NextProcessor ==
  \/ \E symbol \in Symbols : \E timestamp \in TickTimes : \E fields \in FieldSets :
       ProcessTick(symbol, timestamp, fields)
  \/ \E symbol \in Symbols : \E count \in 1..MaxCount : \E fails \in BOOLEAN :
       GetRecentTicks(symbol, count, fails)
  \/ TickPublished
  \/ TickZadd
  \/ TickZrem
  \/ TickRedisFails

(***************************************************************************)
(* AlertManager.check_all_rules: one check cycle over self.rules           *)
(* (src/alerting/alert_manager.py, src/alerting/alert_rules.py). The       *)
(* scheduler runs one instance of the job at a time.                       *)
(***************************************************************************)
\* self.rules: three rules, in list order
Rules == <<"A", "B", "C">>

\* what a rule's condition does on a snapshot
Verdicts == {"true", "false", "raises"}

NoVerdicts == [r \in SeqRange(Rules) |-> "false"]

\* AlertRule.check: the condition's value, False when the condition raises
RuleCheck(v) == v = "true"

\* the for loop of check_all_rules after rule ix is done: the next rule, or
\* the end of the cycle
AfterRule(ix) == IF ix < Len(Rules) THEN "rules" ELSE "idle"

InitCycle ==
  /\ check_count = 0
  /\ cyclePc = "idle"
  /\ available = FALSE
  /\ verdict = NoVerdicts
  /\ ruleIx = 0
  /\ evaluated = {}
  /\ created = <<>>
  /\ persisted = <<>>
  /\ broadcasted = <<>>
  /\ abortedAt = ""
  /\ raisedBefore = {}
  /\ cycleFaults = 0

\* the scheduler calls check_all_rules: check_count += 1, then
\* await self.redis.get_value("latest_analytics")
CheckAllRules ==
  /\ cyclePc = "idle"
  /\ check_count < MaxCycles
  /\ check_count' = check_count + 1
  /\ cyclePc' = "get"
  /\ raisedBefore' = {r \in evaluated : verdict[r] = "raises"}
  /\ available' = FALSE
  /\ verdict' = NoVerdicts
  /\ ruleIx' = 0
  /\ evaluated' = {}
  /\ created' = <<>>
  /\ persisted' = <<>>
  /\ broadcasted' = <<>>
  /\ abortedAt' = ""
  /\ UNCHANGED cycleFaults
  /\ UNCHANGED alertVars
  /\ UNCHANGED restOfCycle

\* get_value returned nothing: `if not analytics_data_str: return`
NoSnapshot ==
  /\ cyclePc = "get"
  /\ cyclePc' = "idle"
  /\ UNCHANGED <<check_count, available, verdict, ruleIx, evaluated, created,
                 persisted, broadcasted, abortedAt, raisedBefore, cycleFaults>>
  /\ UNCHANGED alertVars
  /\ UNCHANGED restOfCycle

\* get_value returned the snapshot, on which the conditions behave as v
GotSnapshot(v) ==
  /\ cyclePc = "get"
  /\ available' = TRUE
  /\ verdict' = v
  /\ ruleIx' = 1
  /\ cyclePc' = "rules"
  /\ UNCHANGED <<check_count, evaluated, created, persisted, broadcasted,
                 abortedAt, raisedBefore, cycleFaults>>
  /\ UNCHANGED alertVars
  /\ UNCHANGED restOfCycle

\* `if rule.check(analytics_data)` for the current rule; when it is true,
\* trigger_alert formats the message, builds the alert and awaits insert_alert
CheckRule ==
  LET rule == Rules[ruleIx]
  IN
  /\ cyclePc = "rules"
  /\ evaluated' = evaluated \cup {rule}
  /\ IF RuleCheck(verdict[rule])
     THEN /\ created' = Append(created, rule)
          /\ cyclePc' = "insert"
          /\ UNCHANGED ruleIx
     ELSE /\ cyclePc' = AfterRule(ruleIx)
          /\ ruleIx' = ruleIx + 1
          /\ UNCHANGED created
  /\ UNCHANGED <<check_count, available, verdict, persisted, broadcasted,
                 abortedAt, raisedBefore, cycleFaults>>
  /\ UNCHANGED alertVars
  /\ UNCHANGED restOfCycle

\* the current rule's check is true and rule.format_message(data) raises (a
\* template field the snapshot lacks): trigger_alert raises into the
\* `except Exception` of check_all_rules, which ends the cycle
FormatMessageFails ==
  LET rule == Rules[ruleIx]
  IN
  /\ cyclePc = "rules"
  /\ RuleCheck(verdict[rule])
  /\ cycleFaults < MaxCycleFaults
  /\ cycleFaults' = cycleFaults + 1
  /\ evaluated' = evaluated \cup {rule}
  /\ abortedAt' = rule
  /\ cyclePc' = "idle"
  /\ UNCHANGED <<check_count, available, verdict, ruleIx, created, persisted,
                 broadcasted, raisedBefore>>
  /\ UNCHANGED alertVars
  /\ UNCHANGED restOfCycle

\* db.insert_alert returned: the alert is appended to the history, the history
\* trimmed, and broadcast_alert(alert) awaited
AlertInserted ==
  /\ cyclePc = "insert"
  /\ persisted' = Append(persisted, Rules[ruleIx])
  /\ alert_history' = AppendToHistory(alert_history, <<check_count, Rules[ruleIx]>>)
  /\ cyclePc' = "broadcast"
  /\ UNCHANGED <<check_count, available, verdict, ruleIx, evaluated, created,
                 broadcasted, abortedAt, raisedBefore, cycleFaults>>
  /\ UNCHANGED <<triggerPc, alert, alertsCreated, insertFailures, appended>>
  /\ UNCHANGED restOfCycle

\* db.insert_alert raised: trigger_alert raises into the `except Exception` of
\* check_all_rules, which ends the cycle
AlertInsertFails ==
  /\ cyclePc = "insert"
  /\ cycleFaults < MaxCycleFaults
  /\ cycleFaults' = cycleFaults + 1
  /\ abortedAt' = Rules[ruleIx]
  /\ cyclePc' = "idle"
  /\ UNCHANGED <<check_count, available, verdict, ruleIx, evaluated, created,
                 persisted, broadcasted, raisedBefore>>
  /\ UNCHANGED alertVars
  /\ UNCHANGED restOfCycle

\* broadcast_alert(alert) returned (it swallows every send error): the for loop
\* goes on to the next rule
AlertBroadcast ==
  /\ cyclePc = "broadcast"
  /\ broadcasted' = Append(broadcasted, Rules[ruleIx])
  /\ cyclePc' = AfterRule(ruleIx)
  /\ ruleIx' = ruleIx + 1
  /\ UNCHANGED <<check_count, available, verdict, evaluated, created, persisted,
                 abortedAt, raisedBefore, cycleFaults>>
  /\ UNCHANGED alertVars
  /\ UNCHANGED restOfCycle

NextCycle ==
  \/ CheckAllRules
  \/ NoSnapshot
  \/ \E v \in [SeqRange(Rules) -> Verdicts] : GotSnapshot(v)
  \/ CheckRule
  \/ FormatMessageFails
  \/ AlertInserted
  \/ AlertInsertFails
  \/ AlertBroadcast

(***************************************************************************)
(* Scenario D: the rule abs(zscore) > 2.0 evaluated on one snapshot, by    *)
(* the alert manager with the rule "High Z-Score" of DEFAULT_RULES         *)
(* (alert_rules.py, alert_manager.py) and by StrategyEngine.check_alerts   *)
(* (core/strategy_engine.py). Decimal values are held in tenths.           *)
(***************************************************************************)
ZScores == {-35, -25, -20, 0, 15, 20, 25, 35}

\* the snapshots: the z-score alone, with the pair's symbols, or no z-score
Snapshots ==
  {[f \in {"zscore"} |-> z] : z \in ZScores}
    \cup {[f \in {"zscore", "symbol1", "symbol2"} |->
             IF f = "zscore" THEN z ELSE 0] : z \in ZScores}
    \cup {[f \in {"symbol1", "symbol2"} |-> 0]}

Abs(x) == IF x < 0 THEN -x ELSE x

\* dict.get(key, default)
Get(data, key, default) == IF key \in DOMAIN data THEN data[key] ELSE default

\* DEFAULT_RULES[0]: "High Z-Score", threshold 2.0, and the fields its
\* message_template names
HighZScore ==
  [name |-> "High Z-Score", condition |-> "zscore_above_threshold",
   threshold |-> 20, fields |-> {"symbol1", "symbol2", "zscore"}]

\* zscore_above_threshold(data, threshold)
ZscoreAboveThreshold(data, threshold) == Abs(Get(data, "zscore", 0)) > threshold

\* AlertRule.format_message: str.format(**data, threshold=...) raises KeyError
\* for a template field that the snapshot lacks
FormatRaises(rule, data) == ~(rule.fields \subseteq (DOMAIN data \cup {"threshold"}))

\* the alert dict of trigger_alert
AlertDict(rule, data) ==
  [rule_name |-> rule.name,
   rule_condition |-> rule.condition,
   symbol |-> IF Get(data, "symbol", None) # None THEN <<data["symbol"]>>
              ELSE <<Get(data, "symbol1", None), Get(data, "symbol2", None)>>,
   triggered_value |-> IF Get(data, "zscore", 0) # 0 THEN data["zscore"]
                       ELSE Get(data, "spread", None),
   threshold |-> rule.threshold,
   message |-> rule.name]

\* the "Z-score alerts" block of check_alerts (zscore_threshold = 2.0)
ZscoreAlerts(zscore) ==
  IF Abs(zscore) > 20
  THEN <<[type |-> "zscore",
          severity |-> IF Abs(zscore) > 30 THEN "high" ELSE "medium",
          value |-> zscore]>>
  ELSE <<>>

\* the "RSI alerts" block (rsi_oversold = 30, rsi_overbought = 70)
RsiAlerts(r) ==
  IF r < 30 \/ r > 70
  THEN <<[type |-> "rsi", severity |-> "medium", value |-> r]>>
  ELSE <<>>

\* the "MACD crossover alerts" block (0 < abs(macd_histogram) < 0.5)
MacdAlerts(m) ==
  IF Abs(m) > 0 /\ Abs(m) < 5
  THEN <<[type |-> "macd", severity |-> "low", value |-> m]>>
  ELSE <<>>

\* StrategyEngine.check_alerts(zscore, rsi, macd_histogram)
CheckAlerts(zscore, r, m) == ZscoreAlerts(zscore) \o RsiAlerts(r) \o MacdAlerts(m)

InitScenario ==
  /\ analytics_data \in Snapshots
  /\ rsi \in {25, 50, 75}
  /\ macd_histogram \in {-3, 0, 3, 10}
  /\ emitted = <<>>
  /\ signals = <<>>
  /\ scenarioDone = {}

\* one check cycle of the alert manager with the rule "High Z-Score" on the
\* snapshot: rule.check, then trigger_alert (message, alert dict, insert)
EvaluateRule ==
  /\ "manager" \notin scenarioDone
  /\ scenarioDone' = scenarioDone \cup {"manager"}
  /\ emitted' = IF /\ ZscoreAboveThreshold(analytics_data, HighZScore.threshold)
                   /\ ~FormatRaises(HighZScore, analytics_data)
                THEN <<AlertDict(HighZScore, analytics_data)>>
                ELSE <<>>
  /\ UNCHANGED <<analytics_data, rsi, macd_histogram, signals>>
  /\ UNCHANGED restOfScenario

\* check_alerts called with the snapshot's z-score
CallCheckAlerts ==
  /\ "engine" \notin scenarioDone
  /\ scenarioDone' = scenarioDone \cup {"engine"}
  /\ signals' = CheckAlerts(Get(analytics_data, "zscore", 0), rsi, macd_histogram)
  /\ UNCHANGED <<analytics_data, rsi, macd_histogram, emitted>>
  /\ UNCHANGED restOfScenario

NextScenario ==
  \/ EvaluateRule
  \/ CallCheckAlerts

(***************************************************************************)
(* BinanceWebSocketClient.get_stats (src/ingestion/websocket_client.py)    *)
(* A socket is absent, or a connection object that is open or not and      *)
(* exposes `open`, `closed`, only `state` (printed by name or by number),  *)
(* or none of them.                                                        *)
(***************************************************************************)
Exposes == {"open_attr", "closed_attr", "state_name", "state_int", "nothing"}

NoSocket == [present |-> FALSE, exposes |-> "nothing", isOpen |-> FALSE]

Sockets ==
  {NoSocket} \cup [present : {TRUE}, exposes : Exposes, isOpen : BOOLEAN]

\* Milliseconds since the last tick of a symbol when get_stats runs
TickAges == {9999, 10000}

NoStats == [mode |-> "none", connected |-> FALSE,
            connected_per_symbol |-> [s \in Symbols |-> FALSE]]

\* str(st).upper().find('OPEN') != -1
StateSaysOpen(ws) ==
  IF ws.exposes = "state_name" THEN ws.isOpen ELSE FALSE

\* The hasattr chain: open, else closed, else state
ProbeSocket(ws) ==
  IF ws.exposes = "open_attr" THEN ws.isOpen
  ELSE IF ws.exposes = "closed_attr" THEN ~(~ws.isOpen)
  ELSE StateSaysOpen(ws)

\* (now_ms - last_ts) < 10_000
Recent(age) == age < RecentWindowMs

\* combined mode: stats["connected"] = bool(connected or recent)
ConnectedCombined(ws, ages) ==
  LET connected == IF ws.present THEN ProbeSocket(ws) ELSE FALSE
      recently == \E s \in Symbols : Recent(ages[s])
  IN connected \/ recently

\* per-symbol mode: stats["connected_per_symbol"][s]
ConnectedSymbol(ws, age) ==
  IF ws.present THEN ProbeSocket(ws) \/ Recent(age) ELSE FALSE

InitStats ==
  /\ statsMode \in Modes
  /\ statsSocket \in Sockets
  /\ statsSockets \in [Symbols -> Sockets]
  /\ statsMode = "combined" => statsSockets = [s \in Symbols |-> NoSocket]
  /\ statsMode = "per_symbol" => statsSocket = NoSocket
  /\ tickAge \in [Symbols -> TickAges]
  /\ client_stats = NoStats

GetStats ==
  /\ client_stats = NoStats
  /\ client_stats' =
       IF statsMode = "combined"
       THEN [mode |-> statsMode,
             connected |-> ConnectedCombined(statsSocket, tickAge),
             connected_per_symbol |-> [s \in Symbols |-> FALSE]]
       ELSE [mode |-> statsMode,
             connected |-> FALSE,
             connected_per_symbol |->
               [s \in Symbols |-> ConnectedSymbol(statsSockets[s], tickAge[s])]]
  /\ UNCHANGED <<statsMode, statsSocket, statsSockets, tickAge>>
  /\ UNCHANGED restOfStats

NextStats == GetStats

(***************************************************************************)
(* AlertEngine (backend/services/alert_engine.py): test alerts,            *)
(* acknowledgement and clearing. uuid4 ids are modelled by a counter.      *)
(***************************************************************************)
Severities == {"info", "critical"}
AlertIds == 1..(MaxEngineAlerts + 1)

\* for a in self._alerts: if a.get('id') == alert_id
Matching(alerts, alert_id) ==
  {i \in 1..Len(alerts) : alerts[i].id = alert_id}

FirstMatching(alerts, alert_id) ==
  CHOOSE i \in Matching(alerts, alert_id) :
    \A j \in Matching(alerts, alert_id) : i <= j

AcknowledgeToggles(alerts, alert_id) ==
  [alerts EXCEPT ![FirstMatching(alerts, alert_id)].acknowledged = ~@]

\* a['acknowledged'] = True; return
Acknowledge(alerts, alert_id) ==
  [alerts EXCEPT ![FirstMatching(alerts, alert_id)].acknowledged = TRUE]

\* [a for a in self._alerts if not a.get('acknowledged')]
Unacknowledged(alerts) == SelectSeq(alerts, LAMBDA a : ~a.acknowledged)

InitEngine ==
  /\ engine_alerts = <<>>
  /\ engineIds = 0
  /\ ackResult = "none"
  /\ ackId = 0

CreateTestAlert(severity, message) ==
  /\ engineIds < MaxEngineAlerts
  /\ engineIds' = engineIds + 1
  /\ engine_alerts' =
       Append(engine_alerts,
              [id |-> engineIds + 1, severity |-> severity,
               message |-> message, timestamp |-> None,
               acknowledged |-> FALSE])
  /\ ackResult' = "none"
  /\ ackId' = 0
  /\ UNCHANGED restOfEngine

AcknowledgeAlert(alert_id) ==
  /\ ackId' = alert_id
  /\ IF Matching(engine_alerts, alert_id) # {}
     THEN /\ engine_alerts' = Acknowledge(engine_alerts, alert_id)
          /\ ackResult' = "returned"
     ELSE /\ ackResult' = "KeyError"
          /\ UNCHANGED engine_alerts
  /\ UNCHANGED engineIds
  /\ UNCHANGED restOfEngine

ClearAcknowledged ==
  /\ engine_alerts' = Unacknowledged(engine_alerts)
  /\ ackResult' = "none"
  /\ ackId' = 0
  /\ UNCHANGED engineIds
  /\ UNCHANGED restOfEngine

NextEngine ==
  \/ \E sev \in Severities : CreateTestAlert(sev, "test")
  \/ \E id \in AlertIds : AcknowledgeAlert(id)
  \/ ClearAcknowledged

(***************************************************************************)
(* Specifications: one per component, the other components at rest         *)
(***************************************************************************)
Init ==
  /\ InitSampling /\ InitIngest /\ InitFanout /\ InitAlerts /\ InitStore
  /\ InitLifecycle /\ InitProcessor
  /\ barFailures = 0
  /\ InitCycle
  /\ InitScenario
  /\ InitStats
  /\ InitEngine

StoreAtRest == storeKind = "ohlc" /\ zrange = <<>>

StatsAtRest ==
  /\ statsMode = "combined"
  /\ statsSocket = NoSocket
  /\ statsSockets = [s \in Symbols |-> NoSocket]
  /\ tickAge = [s \in Symbols |-> 10000]

ScenarioAtRest ==
  /\ analytics_data = [f \in {"zscore"} |-> 0]
  /\ rsi = 50
  /\ macd_histogram = 0

InitSamplingOnly ==
  /\ StatsAtRest /\ ScenarioAtRest /\ StoreAtRest
  /\ Init /\ mode = "combined" /\ transport = "closed_attr"

SpecSampling == InitSamplingOnly /\ [][NextSampling]_vars

SpecSamplingFaults == InitSamplingOnly /\ [][NextSamplingFaults]_vars

InitIngestOnly == StatsAtRest /\ ScenarioAtRest /\ StoreAtRest /\ Init

SpecIngest == InitIngestOnly /\ [][NextIngest]_vars

SpecHandling == InitIngestOnly /\ [][NextHandling]_vars

SpecFanout == InitSamplingOnly /\ [][NextFanout]_vars

SpecAlerts == InitSamplingOnly /\ [][NextAlerts]_vars

SpecLifecycle == InitSamplingOnly /\ [][NextLifecycle]_vars

SpecProcessor == InitSamplingOnly /\ [][NextProcessor]_vars

InitScenarioOnly ==
  /\ StatsAtRest /\ StoreAtRest
  /\ Init /\ mode = "combined" /\ transport = "closed_attr"

SpecScenario == InitScenarioOnly /\ [][NextScenario]_vars

SpecCycle == InitSamplingOnly /\ [][NextCycle]_vars

InitStoreOnly ==
  /\ StatsAtRest /\ ScenarioAtRest
  /\ Init /\ mode = "combined" /\ transport = "closed_attr"

SpecStore == InitStoreOnly /\ [][NextStore]_vars

InitStatsOnly ==
  /\ ScenarioAtRest /\ StoreAtRest
  /\ Init /\ mode = "combined" /\ transport = "closed_attr"

SpecStats == InitStatsOnly /\ [][NextStats]_vars

SpecEngine == InitSamplingOnly /\ [][NextEngine]_vars

\* The event loop runs every task that is ready, and the alert timer and the
\* pub/sub feed keep publishing: the publishing steps of each path are fair.
\* Nothing obliges a peer to connect, break or go away.
SpecFanoutFair ==
  /\ SpecFanout
  /\ WF_vars(BroadcastCall("alert") \/ BroadcastNext \/ BroadcastSend)
  /\ \A c \in Conns : WF_vars(LiveMessage(c) \/ LiveSendDone(c))

(***************************************************************************)
(* Claims about the SamplingEngine (checked under SpecSampling)            *)
(***************************************************************************)
PricesOf(ticks) == [i \in 1..Len(ticks) |-> ticks[i].price]
QuantitiesOf(ticks) == [i \in 1..Len(ticks) |-> ticks[i].quantity]
BucketOf(timestamp) == timestamp - (timestamp % 60000)

\* C1: for the ticks applied to a symbol's open bar (consecutive ticks of one
\* bucket, in arrival order): open is the first price, high the maximum, low
\* the minimum, close the last price, volume the sum of the quantities and
\* trades the number of ticks.
C1_OhlcvOfBucket ==
  \A s \in Symbols :
    applied[s] # <<>> =>
      LET bar == current_bars[s]
          ps == PricesOf(applied[s])
      IN /\ bar.open = ps[1]
         /\ bar.high = SeqMax(ps)
         /\ bar.low = SeqMin(ps)
         /\ bar.close = ps[Len(ps)]
         /\ bar.volume = SeqSum(QuantitiesOf(applied[s]))
         /\ bar.trades = Len(applied[s])
         /\ \A i \in 1..Len(applied[s]) :
              BucketOf(applied[s][i].timestamp) = BucketOf(applied[s][1].timestamp)

\* Scenario A: (100,1), (105,2), (98,1) in one bucket of symbol X
C1_Witness ==
  /\ PricesOf(applied["X"]) = <<100, 105, 98>>
  /\ QuantitiesOf(applied["X"]) = <<1, 2, 1>>
  /\ current_bars["X"].open = 100 /\ current_bars["X"].high = 105
  /\ current_bars["X"].low = 98 /\ current_bars["X"].close = 98
  /\ current_bars["X"].volume = 4 /\ current_bars["X"].trades = 3

SameValues(msg, symbol, bar) ==
  /\ msg.symbol = symbol /\ msg.interval = "1m"
  /\ msg.open = bar.open /\ msg.high = bar.high /\ msg.low = bar.low
  /\ msg.close = bar.close /\ msg.volume = bar.volume
  /\ msg.trades = bar.trades /\ msg.timestamp = bar.timestamp

Published(chan, chan2) == Len(chan2) = Len(chan) + 1

\* C2: a tick in another bucket than the symbol's open bar makes the handler
\* publish the open bar, unchanged since before the tick, with final=true, and
\* only then replace it by a bar holding the tick alone; final=true is
\* published at no other point, so an open bar is only published as final=false.
C2_FinalBeforeNewBar ==
  [][ \A s \in Symbols :
      LET old == current_bars[s]
      IN
      \* the handler enters the rollover exactly for a tick of another bucket
      /\ (ticksSeen' # ticksSeen /\ aggTick'.symbol = s /\ old.timestamp # None
            /\ BucketOf(aggTick'.timestamp) # old.timestamp)
           => (aggPc' = "zadd" /\ current_bars' = current_bars)
      \* leaving the publish step: the final bar went out, the bar is still the old one
      /\ (aggPc' = "newbar" /\ aggPc # "newbar" /\ aggTick.symbol = s)
           => /\ Published(ohlcChan, ohlcChan')
              /\ ohlcChan'[Len(ohlcChan')].final = TRUE
              /\ SameValues(ohlcChan'[Len(ohlcChan')], s, old)
              /\ old.volume = SeqSum(QuantitiesOf(applied[s]))
              /\ old.trades = Len(applied[s])
              /\ current_bars' = current_bars
      \* the bar of another bucket is opened only after that, from the tick alone
      /\ (current_bars'[s] # old /\ old.timestamp # None
            /\ current_bars'[s].timestamp # old.timestamp)
           => /\ aggPc = "newbar" /\ aggTick.symbol = s
              /\ current_bars'[s].open = aggTick.price
              /\ current_bars'[s].high = aggTick.price
              /\ current_bars'[s].low = aggTick.price
              /\ current_bars'[s].close = aggTick.price
              /\ current_bars'[s].volume = aggTick.quantity
              /\ current_bars'[s].trades = 1
              /\ current_bars'[s].timestamp = BucketOf(aggTick.timestamp)
      \* final=true is published by the rollover only
      /\ (Published(ohlcChan, ohlcChan') /\ ohlcChan'[Len(ohlcChan')].final)
           => (aggPc = "publish" /\ aggPc' = "newbar")
    ]_vars

\* a rollover of X completed: the final bar of two ticks is on the channel and
\* the open bar holds the triggering tick alone
C2_Witness ==
  /\ aggPc = "listen"
  /\ Len(ohlcChan) >= 1
  /\ ohlcChan[1].final /\ ohlcChan[1].symbol = "X" /\ ohlcChan[1].trades = 2
  /\ ohlcChan[1].timestamp = 0
  /\ current_bars["X"].timestamp = 60000
  /\ current_bars["X"].trades = 1

FinalsOf(s, b) ==
  {i \in 1..Len(ohlcChan) :
     ohlcChan[i].final /\ ohlcChan[i].symbol = s /\ ohlcChan[i].timestamp = b}

StoredFinalsOf(s, b) == {e \in ohlcStore[s] : e.score = b}

\* C3: per symbol and bucket at most one final bar is published and persisted,
\* and once the final bar of a bucket is out no bar of that bucket is opened.
C3_FinalOncePerBucket ==
  /\ [](\A s \in Symbols : \A b \in {BucketOf(t) : t \in Timestamps} :
          /\ Cardinality(FinalsOf(s, b)) <= 1
          /\ Cardinality(StoredFinalsOf(s, b)) <= 1)
  /\ [][ \A s \in Symbols :
           current_bars'[s].timestamp # current_bars[s].timestamp
             => FinalsOf(s, current_bars'[s].timestamp) = {}
       ]_vars

\* C4: a tick of a bucket older than the symbol's open bar changes nothing:
\* no bar field, no new bar, nothing finalized, stored or published.
C4_LateTickDropped ==
  [][ \A s \in Symbols :
      LET old == current_bars[s]
      IN (ticksSeen' # ticksSeen /\ aggTick'.symbol = s /\ old.timestamp # None
            /\ BucketOf(aggTick'.timestamp) < old.timestamp)
           => /\ current_bars' = current_bars
              /\ aggPc' = "listen"
              /\ ohlcChan' = ohlcChan
              /\ ohlcStore' = ohlcStore
    ]_vars

\* C5: bucket_start = floor(timestamp / 60000) * 60000 (90123 gives 60000); an
\* open bar's timestamp is a multiple of 60000 and the tick last applied to it
\* lies in [timestamp, timestamp + 60000).
C5_BucketStart ==
  \A s \in Symbols :
    applied[s] # <<>> =>
      LET bar == current_bars[s]
          last == applied[s][Len(applied[s])]
      IN /\ bar.timestamp % 60000 = 0
         /\ bar.timestamp <= last.timestamp
         /\ last.timestamp < bar.timestamp + 60000
         /\ (last.timestamp = 90123 => bar.timestamp = 60000)

C5_Witness ==
  /\ applied["X"] # <<>>
  /\ applied["X"][Len(applied["X"])].timestamp = 90123
  /\ current_bars["X"].timestamp = 60000

(***************************************************************************)
(* Claims about BinanceWebSocketClient (checked under SpecIngest)          *)
(***************************************************************************)
RECURSIVE Pow2(_)
Pow2(n) == IF n = 0 THEN 1 ELSE 2 * Pow2(n - 1)

\* the delay the spec prescribes for the k-th consecutive failed connect
ExpectedBackoff(k) == IF Pow2(k - 1) <= 60 THEN Pow2(k - 1) ELSE 60

\* C6: combined mode: the delay slept after the k-th consecutive failed connect
\* (counted from the start or from the last successful connect) is
\* min(2^(k-1), 60) seconds: 1, 2, 4, ..., never above 60, and 1 again for the
\* first failure after a successful connect.
C6_CombinedBackoff ==
  (mode = "combined" /\ runPc = "backoff") =>
     /\ reconnect_delay = ExpectedBackoff(connectFails)
     /\ reconnect_delay <= 60

\* a failure after a successful connect (the connection has since closed)
\* waits 1s again
C6_Witness ==
  /\ mode = "combined" /\ runPc = "backoff"
  /\ connectFails = 1 /\ reconnect_delay = 1
  /\ websocket = "closed"

\* C7: per-symbol mode: the delay a symbol's loop sleeps after the k-th
\* consecutive failed connect of that symbol (counted from the start or from
\* its last successful connect) is min(2^(k-1), 60) seconds, so 1s for the first
\* failure after a successful connect.
C7_PerSymbolBackoffReset ==
  \A s \in Symbols :
    (mode = "per_symbol" /\ symPc[s] = "backoff") =>
       delay[s] = ExpectedBackoff(symConnectFails[s])

(***************************************************************************)
(* Claims about the fan-out (checked under SpecFanout / SpecFanoutFair)    *)
(***************************************************************************)
\* C8: when a broadcast_tick or broadcast_alert call ends (by returning or by
\* an exception) and the send to some subscriber raised in it, every other
\* subscriber that was registered during the whole call has been sent the
\* message exactly once.
C8_FailureDoesNotBlockOthers ==
  [][ (call.pc = "next" /\ call'.pc \in {"done", "raised"} /\ call.failed # {})
        => \A c \in call.throughout \ call.failed : call.sent[c] = 1
    ]_vars

\* C9: on each fan-out path a subscriber whose sends always raise is
\* eventually removed from the registry of that path.
C9_FailingSubscriberRemoved ==
  \A c \in Conns :
    /\ [](c \in broken /\ c \in active_connections
            => <>(c \notin active_connections))
    /\ [](c \in broken /\ c \in live_connections
            => <>(c \notin live_connections))

(***************************************************************************)
(* Claims about AlertManager (checked under SpecAlerts)                    *)
(***************************************************************************)
LastOf(seq, n) == [i \in 1..n |-> seq[Len(seq) - n + i]]

\* C10: the history never holds more than 100 alerts, and it holds the most
\* recently appended alerts in creation order: the oldest is evicted first.
C10_HistoryBounded ==
  /\ Len(alert_history) <= 100
  /\ alert_history =
       LastOf(appended, IF Len(appended) <= 100 THEN Len(appended) ELSE 100)
  /\ \A i \in 1..(Len(alert_history) - 1) : alert_history[i] < alert_history[i + 1]

\* more than 100 alerts were appended and the oldest ones are gone
C10_Witness ==
  /\ Len(appended) = 102
  /\ Len(alert_history) = 100
  /\ alert_history[1] = appended[3]
  /\ alert_history[100] = appended[102]

(***************************************************************************)
(* Claims about the bounded windows (checked under SpecStore)              *)
(***************************************************************************)
\* C11: the bar stores (ohlc:{symbol}:{interval} written by store_ohlc and by
\* _publish_bar, and table ohlc_{interval}) hold at most one bar per timestamp,
\* whatever the contents of the writes.
C11_OneBarPerTimestamp ==
  /\ storeKind \in {"ohlc", "final"} =>
       \A i, j \in 1..Len(zrange) : zrange[i][1] = zrange[j][1] => i = j
  /\ storeKind = "db" =>
       \A r, q \in dbRows : r[1] = q[1] => r = q

\* C14: in every state another task can observe, the recent-tick set holds at
\* most 1000 entries, the RedisManager bar set at most 100 and the
\* SamplingEngine final-bar set at most 500.
C14_WindowNeverOverCap ==
  /\ storeKind = "ticks" => Len(zrange) <= 1000
  /\ storeKind = "ohlc" => Len(zrange) <= 100
  /\ storeKind = "final" => Len(zrange) <= 500

(***************************************************************************)
(* Further claims about the SamplingEngine (checked under SpecSampling)    *)
(***************************************************************************)
\* C12: every snapshot published by the snapshot task carries, in all of its
\* fields, the values of the symbol's open bar after a whole number of ticks:
\* those of the ticks applied to the bar so far, whatever the aggregation task
\* is in the middle of.
C12_SnapshotConsistent ==
  [][ \A s \in Symbols :
        LET m == ohlcChan'[Len(ohlcChan')]
            ts == applied[s]
        IN (Published(ohlcChan, ohlcChan') /\ ~m.final /\ m.symbol = s) =>
             /\ ts # <<>>
             /\ m.open = ts[1].price
             /\ m.high = SeqMax(PricesOf(ts))
             /\ m.low = SeqMin(PricesOf(ts))
             /\ m.close = ts[Len(ts)].price
             /\ m.volume = SeqSum(QuantitiesOf(ts))
             /\ m.trades = Len(ts)
             /\ m.timestamp = BucketOf(ts[1].timestamp)
    ]_vars

\* a snapshot of a two-tick bar was published while the aggregation task was
\* suspended in the rollover of that bar
C12_Witness ==
  /\ ohlcChan # <<>>
  /\ ~ohlcChan[Len(ohlcChan)].final
  /\ ohlcChan[Len(ohlcChan)].trades = 2
  /\ ohlcChan[Len(ohlcChan)].close # ohlcChan[Len(ohlcChan)].open
  /\ aggPc \in {"zadd", "zrem", "publish"}
  /\ bar_data.symbol = ohlcChan[Len(ohlcChan)].symbol

(***************************************************************************)
(* Claims about the task lifecycle (checked under SpecLifecycle)           *)
(***************************************************************************)
\* C13: at most one aggregation task at a time is subscribed to the tick
\* channel, and no published tick is applied to the bars more than once.
C13_SingleAggregationTask ==
  /\ Cardinality({t \in TaskIds : agg_tasks[t] = "listen"}) <= 1
  /\ \A i, j \in 1..Len(tickLog) : tickLog[i][2] = tickLog[j][2] => i = j

(***************************************************************************)
(* Further claims about BinanceWebSocketClient (checked under SpecIngest)  *)
(***************************************************************************)
\* C15: once stop() has been called on a running client and the close() tasks
\* it created have run, no connection is open any more and no further message
\* is handed to the callback.
C15_StopEndsDelivery ==
  [][ (~client_running /\ runPc # "init" /\ closeTasks = {}) =>
        /\ tick_count' = tick_count
        /\ websocket # "open"
        /\ \A s \in Symbols : websockets[s] # "open"
    ]_vars

\* C18: per-symbol mode: a step of one symbol's loop (connect result, backoff,
\* read, read error, sleep) leaves every other symbol's delay, connection and
\* loop position as they are.
C18_SymbolLoopsIndependent ==
  [][ \A a, b \in Symbols :
        (a # b /\ symPc[a] # "init" /\ symPc'[a] # symPc[a]) =>
           /\ delay'[b] = delay[b]
           /\ websockets'[b] = websockets[b]
           /\ symPc'[b] = symPc[b]
           /\ tick_count'[b] = tick_count[b]
    ]_vars

\* X has failed three connects in a row and never connected, and is waiting
\* 4s; meanwhile Y connected, kept its 1s delay and delivered a tick
C18_Witness ==
  /\ mode = "per_symbol"
  /\ symPc["X"] = "backoff" /\ symConnectFails["X"] = 3 /\ delay["X"] = 4
  /\ websockets["X"] = "none"
  /\ symPc["Y"] = "reading" /\ websockets["Y"] = "open"
  /\ delay["Y"] = 1 /\ tick_count["Y"] = 1

C17_OnlyCompleteTicks ==
  \A i \in 1..Len(callbackLog) : callbackLog[i].tick = "complete"

(***************************************************************************)
(* Claims about DataProcessor (checked under SpecProcessor)                *)
(***************************************************************************)
\* C19: a process_tick call on a tick that lacks symbol, price, quantity or
\* timestamp raises, adds exactly 1 to errors, leaves ticks_processed and every
\* buffer as they were and persists and publishes nothing.
C19_InvalidTickRejected ==
  [][ (calls' = calls + 1 /\ procTick'.fields # {"symbol", "price", "quantity",
                                                  "timestamp"}) =>
        /\ procResult' = "raised" /\ procPc' = "idle"
        /\ processing_stats'.errors = processing_stats.errors + 1
        /\ processing_stats'.ticks_processed = processing_stats.ticks_processed
        /\ tick_buffer' = tick_buffer
        /\ tickStream' = tickStream
        /\ tickStore' = tickStore
    ]_vars

\* a tick without timestamp was rejected after a valid tick had been processed
C19_Witness ==
  /\ procResult = "raised"
  /\ procTick.fields = {"symbol", "price", "quantity"}
  /\ processing_stats = [ticks_processed |-> 1, errors |-> 1]
  /\ Len(tickStream) = 1

\* C20: when a process_tick call on a tick with all required fields has
\* returned (its Redis calls having returned), the tick returned carries
\* processed_at, is the last element of its symbol's buffer, is in the
\* recent-tick set of its symbol, is the last message on 'tick_stream',
\* ticks_processed is 1 more than when the call began and errors is unchanged.
C20_ValidTickProcessed ==
  /\ (procTick.fields = {"symbol", "price", "quantity", "timestamp"}
        /\ procPc = "idle") => procResult = "returned"
  /\ (procResult = "returned" /\ ~redisRaised) =>
        /\ procTick.processed_at
        /\ tick_buffer[procTick.symbol] # <<>>
        /\ tick_buffer[procTick.symbol][Len(tick_buffer[procTick.symbol])]
             = procTick.id
        /\ \E i \in 1..Len(tickStore[procTick.symbol]) :
             tickStore[procTick.symbol][i][2] = procTick.id
        /\ tickStream # <<>> /\ tickStream[Len(tickStream)] = procTick
        /\ processing_stats.ticks_processed = statsAtCall.ticks_processed + 1
        /\ processing_stats.errors = statsAtCall.errors

\* the second valid tick of X was processed
C20_Witness ==
  /\ procResult = "returned" /\ ~redisRaised /\ redisFailures = 0
  /\ procTick.id = 2 /\ procTick.symbol = "X"
  /\ tick_buffer["X"] = <<1, 2>>
  /\ Len(tickStream) = 2
  /\ processing_stats = [ticks_processed |-> 2, errors |-> 0]

\* C21: the buffer of each symbol is bounded by a fixed capacity, the oldest
\* tick being evicted on overflow: however many ticks are processed, a buffer
\* never holds all MaxCalls of them.
C21_BufferBounded ==
  \A s \in Symbols : Len(tick_buffer[s]) < MaxCalls

\* C22: when zadd or zremrangebyrank of add_tick raises inside publish_tick,
\* process_tick returns the tick, which is still the last of its buffer and the
\* last message on 'tick_stream'; ticks_processed is 1 more than when the call
\* began and errors is unchanged; and a later call whose Redis calls return
\* ends with its tick buffered, stored, published and counted.
C22_StoreFailureSwallowed ==
  [][ /\ (redisFailures' = redisFailures + 1 /\ procPc \in {"zadd", "zrem"}) =>
           /\ procResult' = "returned" /\ procPc' = "idle"
           /\ procTick' = procTick
           /\ tick_buffer'[procTick.symbol][Len(tick_buffer'[procTick.symbol])]
                = procTick.id
           /\ tickStream'[Len(tickStream')] = procTick
           /\ processing_stats'.ticks_processed
                = statsAtCall.ticks_processed + 1
           /\ processing_stats'.errors = statsAtCall.errors
      /\ (redisFailures = 1 /\ ~redisRaised /\ procPc = "zrem"
            /\ procPc' = "idle") =>
           /\ procResult' = "returned"
           /\ tick_buffer'[procTick.symbol][Len(tick_buffer'[procTick.symbol])]
                = procTick.id
           /\ tickStream'[Len(tickStream')] = procTick
           /\ \E i \in 1..Len(tickStore'[procTick.symbol]) :
                tickStore'[procTick.symbol][i][2] = procTick.id
           /\ processing_stats'.ticks_processed
                = statsAtCall.ticks_processed + 1
           /\ processing_stats'.errors = statsAtCall.errors
    ]_vars

\* the zadd of the first tick raised, and the second tick was then processed
\* and stored
C22_Witness ==
  /\ redisFailures = 1 /\ ~redisRaised
  /\ procResult = "returned" /\ procTick.id = 2
  /\ Len(tickStream) = 2
  /\ tick_buffer[procTick.symbol] = <<1, 2>>
  /\ Len(tickStore[procTick.symbol]) = 1
  /\ processing_stats = [ticks_processed |-> 2, errors |-> 0]

(***************************************************************************)
(* Claims about Redis faults in the SamplingEngine (SpecSamplingFaults)    *)
(***************************************************************************)
\* C23: when the zadd or the trim of a finalized bar raises, the task goes on to
\* publish the bar, and the publish appends it to 'ohlc' with final = TRUE;
\* when the publish raises, the error is caught; in both cases the new bar is
\* then opened from the triggering tick, and after a fault a tick of the open
\* bucket updates the bar by the OHLCV rules.
C23_BarFaultsNotFatal ==
  [][ /\ (barFailures' = barFailures + 1 /\ aggPc \in {"zadd", "zrem"}) =>
           /\ aggPc' = "publish"
           /\ bar_data' = bar_data /\ bar_data.final
           /\ current_bars' = current_bars
      /\ (aggPc = "publish" /\ aggPc' \notin {"publish", "cancelled"}
            /\ barFailures' = barFailures) =>
           /\ ohlcChan' = Append(ohlcChan, bar_data) /\ bar_data.final
           /\ aggPc' = "newbar"
      /\ (barFailures' = barFailures + 1 /\ aggPc = "publish") =>
           /\ aggPc' = "newbar"
           /\ sampling_running' = sampling_running
           /\ current_bars' = current_bars
      /\ (aggPc = "newbar" /\ aggPc' \notin {"newbar", "cancelled"}) =>
           /\ aggPc' = "listen"
           /\ current_bars'[aggTick.symbol] =
                [open |-> aggTick.price, high |-> aggTick.price,
                 low |-> aggTick.price, close |-> aggTick.price,
                 volume |-> aggTick.quantity, trades |-> 1,
                 timestamp |-> BucketOf(aggTick.timestamp)]
      /\ (barFailures > 0 /\ ticksSeen' = ticksSeen + 1
            /\ current_bars[aggTick'.symbol].timestamp
                 = BucketOf(aggTick'.timestamp)) =>
           LET old == current_bars[aggTick'.symbol]
               new == current_bars'[aggTick'.symbol]
           IN /\ new.open = old.open
              /\ new.high = (IF aggTick'.price > old.high THEN aggTick'.price
                             ELSE old.high)
              /\ new.low = (IF aggTick'.price < old.low THEN aggTick'.price
                            ELSE old.low)
              /\ new.close = aggTick'.price
              /\ new.volume = old.volume + aggTick'.quantity
              /\ new.trades = old.trades + 1
              /\ new.timestamp = old.timestamp
    ]_vars

\* the store write of X's first bar raised: the bar is on 'ohlc' with
\* final = TRUE and not in the store, and the bar opened from the triggering
\* tick has taken a further tick
C23_Witness ==
  /\ barFailures = 1
  /\ ohlcStore["X"] = {}
  /\ \E i \in 1..Len(ohlcChan) :
       ohlcChan[i].final /\ ohlcChan[i].symbol = "X"
         /\ ohlcChan[i].timestamp = 0
  /\ current_bars["X"].timestamp = 60000
  /\ current_bars["X"].trades = 2
  /\ aggPc = "listen"

(***************************************************************************)
(* Claims about the check cycle of the AlertManager (SpecCycle)            *)
(***************************************************************************)
\* C24: at the end of a cycle that read a snapshot, a rule whose condition
\* raised has produced no alert, every other rule has been evaluated and has
\* produced an alert if its condition is true, and every rule whose condition
\* raised in the cycle before has been evaluated again.
C24_RaisingRuleSkippedOnce ==
  (cyclePc = "idle" /\ check_count > 0 /\ available) =>
     /\ \A r \in evaluated :
          verdict[r] = "raises" =>
            /\ \A i \in 1..Len(created) : created[i] # r
            /\ \A q \in {"A", "B", "C"} \ {r} :
                 /\ q \in evaluated
                 /\ verdict[q] = "true" =>
                      \E i \in 1..Len(created) : created[i] = q
     /\ raisedBefore \subseteq evaluated

\* C25: at the end of a cycle in which formatting or persisting the alert of
\* one rule failed, every rule after it in the list has been evaluated and has
\* produced its alert if its condition is true.
C25_TriggerFailureIsolated ==
  (cyclePc = "idle" /\ abortedAt # "") =>
     \A i, j \in 1..Len(Rules) :
       (Rules[i] = abortedAt /\ i < j) =>
          /\ Rules[j] \in evaluated
          /\ verdict[Rules[j]] = "true" =>
               \E k \in 1..Len(created) : created[k] = Rules[j]

\* C26: at the end of every cycle that read a snapshot, each rule whose
\* condition is true on it has created, persisted and published exactly one
\* alert in that cycle (hence N alerts over N such cycles).
C26_FiresEveryCycle ==
  (cyclePc = "idle" /\ check_count > 0 /\ available) =>
     \A r \in {"A", "B", "C"} :
       verdict[r] = "true" =>
          /\ Cardinality({i \in 1..Len(created) : created[i] = r}) = 1
          /\ Cardinality({i \in 1..Len(persisted) : persisted[i] = r}) = 1
          /\ Cardinality({i \in 1..Len(broadcasted) : broadcasted[i] = r}) = 1

(***************************************************************************)
(* Claims about Scenario D (SpecScenario)                                  *)
(***************************************************************************)
SeverityRank(a) ==
  IF "severity" \notin DOMAIN a THEN 0
  ELSE CASE a.severity = "low" -> 1
         [] a.severity = "medium" -> 2
         [] a.severity = "high" -> 3
         [] OTHER -> 0

\* C27: the rule abs(zscore) > 2.0 evaluated once on the snapshot {zscore: 2.5}
\* emits exactly one alert, on {zscore: 3.5} exactly one alert of higher
\* severity than the alert for 2.5, and on a snapshot with abs(zscore) <= 2.0
\* none: for the alerts the alert manager creates and for the z-score alerts
\* check_alerts returns.
C27_ScenarioD ==
  LET z == IF "zscore" \in DOMAIN analytics_data THEN analytics_data["zscore"]
           ELSE 0
      zalerts == SelectSeq(signals, LAMBDA a : a.type = "zscore")
  IN
  /\ ("manager" \in scenarioDone /\ DOMAIN analytics_data = {"zscore"}) =>
       /\ z \in {25, 35} => Len(emitted) = 1
       /\ z \in {-20, 0, 15, 20} => Len(emitted) = 0
       /\ (z = 35 /\ emitted # <<>>) =>
            SeverityRank(emitted[1])
              > SeverityRank(AlertDict(HighZScore, [f \in {"zscore"} |-> 25]))
  /\ "engine" \in scenarioDone =>
       /\ z \in {25, 35} => Len(zalerts) = 1
       /\ z \in {-20, 0, 15, 20} => Len(zalerts) = 0
       /\ z = 35 => SeverityRank(zalerts[1]) > SeverityRank(ZscoreAlerts(25)[1])

(***************************************************************************)
(* Further claims about the SamplingEngine (SpecSampling): intervals       *)
(***************************************************************************)
\* C28: once a tick of a symbol has been applied, the engine holds for that
\* symbol an open bar for each of the intervals 1s, 1m and 5m, each on the
\* bucket of that interval which contains the tick (timestamp rounded down to
\* 1000, 60000 and 300000 ms).
C28_BarPerInterval ==
  \A s \in Symbols :
    (applied[s] # <<>> /\ aggPc = "listen") =>
       LET ts == applied[s][Len(applied[s])].timestamp
       IN /\ {"1s", "1m", "5m"} \subseteq {ActiveIntervals[i] :
                                            i \in 1..Len(ActiveIntervals)}
          /\ BarOf(s, "1s").timestamp = ts - (ts % 1000)
          /\ BarOf(s, "1m").timestamp = ts - (ts % 60000)
          /\ BarOf(s, "5m").timestamp = ts - (ts % 300000)

C30_RecentTicksNewestFirst ==
  [][ recent' # recent =>
        LET r == recent'
            stored == {tickStore[r.symbol][i] : i \in 1..Len(tickStore[r.symbol])}
            got == {r.ticks[i] : i \in 1..Len(r.ticks)}
        IN IF r.raised THEN r.ticks = <<>>
           ELSE /\ Len(r.ticks) <= r.count
                /\ Len(r.ticks) = (IF Cardinality(stored) < r.count
                                   THEN Cardinality(stored) ELSE r.count)
                /\ got \subseteq stored
                /\ Cardinality(got) = Len(r.ticks)
                /\ \A i, j \in 1..Len(r.ticks) :
                     i < j => r.ticks[i][1] >= r.ticks[j][1]
                /\ \A t \in stored \ got : \A g \in got : t[1] <= g[1]
    ]_vars

\* two ticks of X are stored, the older one having arrived last, and
\* get_recent_ticks("X", 1) returned the newer one only
C30_Witness ==
  /\ tickStore["X"] = <<(<<1, 2>>), (<<2, 1>>)>>
  /\ recent = [symbol |-> "X", count |-> 1, raised |-> FALSE,
               ticks |-> <<(<<2, 1>>)>>]

(***************************************************************************)
(* Claims about get_stats (SpecStats)                                      *)
(***************************************************************************)
ExposesState(ws) == ws.present /\ ws.exposes # "nothing"

\* C31: in what get_stats returned, the connected flag of a socket that
\* exposes an open/closed state equals that state, and the recent-tick test
\* (a last tick less than 10 s old) decides the flag only of a socket that
\* exposes no such state.
C31_TransportStateReported ==
  /\ client_stats.mode = "combined" =>
       /\ ExposesState(statsSocket) =>
            client_stats.connected = statsSocket.isOpen
       /\ (statsSocket.present /\ ~ExposesState(statsSocket)) =>
            client_stats.connected = (\E s \in Symbols : tickAge[s] < 10000)
  /\ client_stats.mode = "per_symbol" =>
       \A s \in Symbols :
         /\ ExposesState(statsSockets[s]) =>
              client_stats.connected_per_symbol[s] = statsSockets[s].isOpen
         /\ (statsSockets[s].present /\ ~ExposesState(statsSockets[s])) =>
              client_stats.connected_per_symbol[s] = (tickAge[s] < 10000)

(***************************************************************************)
(* Claims about the AlertEngine (SpecEngine)                               *)
(***************************************************************************)
\* C32: a stored alert changes only by acknowledge_alert(its id) setting
\* acknowledged from false to true: across every step an alert that stays
\* stored keeps id, severity, message and timestamp, acknowledged never goes
\* back to false, and it becomes true only in a call given that alert's id;
\* acknowledge_alert with an id no stored alert has raises KeyError and
\* leaves the list as it was, and with a stored id it returns.
C32_OnlyAcknowledgeMutates ==
  [][ /\ \A i \in 1..Len(engine_alerts) : \A j \in 1..Len(engine_alerts') :
           engine_alerts[i].id = engine_alerts'[j].id =>
             /\ engine_alerts'[j].severity = engine_alerts[i].severity
             /\ engine_alerts'[j].message = engine_alerts[i].message
             /\ engine_alerts'[j].timestamp = engine_alerts[i].timestamp
             /\ engine_alerts[i].acknowledged => engine_alerts'[j].acknowledged
             /\ engine_alerts'[j].acknowledged # engine_alerts[i].acknowledged
                  => (ackResult' = "returned" /\ ackId' = engine_alerts[i].id)
      /\ ackId' # 0 =>
           IF \E i \in 1..Len(engine_alerts) : engine_alerts[i].id = ackId'
           THEN /\ ackResult' = "returned"
                /\ Len(engine_alerts') = Len(engine_alerts)
                /\ \E j \in 1..Len(engine_alerts') :
                     /\ engine_alerts'[j].id = ackId'
                     /\ engine_alerts'[j].acknowledged
           ELSE /\ ackResult' = "KeyError"
                /\ engine_alerts' = engine_alerts
    ]_vars

\* an unknown id was refused while one alert is acknowledged and another not
C32_Witness ==
  /\ ackResult = "KeyError"
  /\ \E i \in 1..Len(engine_alerts) : engine_alerts[i].acknowledged
  /\ \E j \in 1..Len(engine_alerts) : ~engine_alerts[j].acknowledged

(***************************************************************************)
(* Further claims about the SamplingEngine (SpecSampling): bar shape and   *)
(* what finalizes a bar                                                    *)
(***************************************************************************)
WellFormed(b) ==
  /\ b.low <= b.open /\ b.open <= b.high
  /\ b.low <= b.close /\ b.close <= b.high
  /\ b.trades >= 1

\* C33: after every step, every open bar, every message published on 'ohlc'
\* (snapshot or final), every stored final bar and the one being published has
\* low <= open <= high, low <= close <= high and trades >= 1; and a tick
\* applied to a symbol's bar without leaving its bucket raises trades by 1.
C33_BarsWellFormed ==
  [][ /\ \A s \in Symbols :
           current_bars'[s].timestamp # None => WellFormed(current_bars'[s])
      /\ \A i \in 1..Len(ohlcChan') : WellFormed(ohlcChan'[i])
      /\ \A s \in Symbols : \A e \in ohlcStore'[s] : WellFormed(e.member)
      /\ bar_data' # NoBarData => WellFormed(bar_data')
      /\ \A s \in Symbols :
           ( /\ applied'[s] # applied[s]
             /\ current_bars[s].timestamp # None
             /\ current_bars'[s].timestamp = current_bars[s].timestamp )
           => current_bars'[s].trades = current_bars[s].trades + 1
    ]_vars

\* a final bar of two ticks, the second below the first, is on the channel
\* and the next bar of that symbol is open
C33_Witness ==
  \E i \in 1..Len(ohlcChan) :
    /\ ohlcChan[i].final
    /\ ohlcChan[i].trades = 2
    /\ ohlcChan[i].low < ohlcChan[i].open
    /\ current_bars[ohlcChan[i].symbol].trades = 1
    /\ current_bars[ohlcChan[i].symbol].timestamp # ohlcChan[i].timestamp

\* C34: on the 'ohlc' channel no snapshot (final = false) of a symbol and
\* bucket timestamp comes after the final bar of that symbol and bucket.
C34_NoSnapshotAfterFinal ==
  \A i \in 1..Len(ohlcChan) : \A j \in 1..Len(ohlcChan) :
    ( /\ i < j
      /\ ohlcChan[i].final
      /\ ohlcChan[j].symbol = ohlcChan[i].symbol
      /\ ohlcChan[j].timestamp = ohlcChan[i].timestamp )
    => ohlcChan[j].final

FinalIndexes(chan) == {i \in 1..Len(chan) : chan[i].final}

\* C38: a final bar is published on 'ohlc', and a bar is written to the
\* symbol's stored history, only by the aggregation task while it handles a
\* tick of the same symbol whose bucket differs from the bar's: no step of
\* the snapshot task, of stop() or of anything else adds one, and none is
\* added once the tasks are cancelled.
C38_FinalOnlyByLaterTick ==
  [][ /\ FinalIndexes(ohlcChan') # FinalIndexes(ohlcChan) =>
           LET m == ohlcChan'[Len(ohlcChan')]
           IN /\ aggPc = "publish" /\ aggPc' = "newbar"
              /\ Len(ohlcChan') = Len(ohlcChan) + 1
              /\ m.final
              /\ aggTick.symbol = m.symbol
              /\ BucketOf(aggTick.timestamp) # m.timestamp
              /\ snapPc' = snapPc /\ sampling_running' = sampling_running
      /\ \A s \in Symbols : \A e \in ohlcStore'[s] \ ohlcStore[s] :
           /\ aggPc = "zadd" /\ aggPc' = "zrem"
           /\ aggTick.symbol = s /\ e.member.symbol = s
           /\ BucketOf(aggTick.timestamp) # e.member.timestamp
      /\ aggPc = "cancelled" =>
           /\ FinalIndexes(ohlcChan') = FinalIndexes(ohlcChan)
           /\ ohlcStore' = ohlcStore
    ]_vars

\* the engine has been stopped: the bar of X that a later tick of X rolled
\* over is on the channel as final, and the bar of Y, which got a tick and no
\* later one, is still open and was never published as final
C38_Witness ==
  /\ ~sampling_running /\ aggPc = "cancelled"
  /\ \E i \in FinalIndexes(ohlcChan) : ohlcChan[i].symbol = "X"
  /\ current_bars["Y"].trades >= 1
  /\ \A i \in FinalIndexes(ohlcChan) : ohlcChan[i].symbol # "Y"
  /\ ohlcStore["Y"] = {}

(***************************************************************************)
(* Further claims about the fan-out (SpecFanout): registry changes during  *)
(* a broadcast                                                             *)
(***************************************************************************)
\* C35: a broadcast_tick or broadcast_alert call never ends by an exception,
\* whatever joins or leaves the registry while it is suspended in a send, and
\* when it ends a send has been made to every subscriber that was registered
\* during the whole call.
C35_RegistryChangeTolerated ==
  [][ (call.pc = "next" /\ call'.pc \in {"done", "raised"})
        => /\ call'.pc = "done"
           /\ \A c \in call.throughout : call.sent[c] = 1 \/ c \in call.failed
    ]_vars

\* C36: the cleanup of a handler never raises, also when broadcast_tick has
\* removed the connection before, and a connection whose handler has exited is
\* not in active_connections.
C36_RemovalSafe ==
  \A c \in Conns :
    /\ handlerPc[c] # "raised"
    /\ handlerPc[c] \in {"closed", "raised"} => c \notin active_connections

\* C37: when a broadcast_tick call ends, every subscriber whose send raised in
\* it is out of active_connections, and every registered subscriber whose send
\* returned in it is still registered.
C37_FailedRemovedBySameCall ==
  [][ (call.kind = "tick" /\ call.pc = "next" /\ call'.pc \in {"done", "raised"})
        => /\ \A c \in call.failed : c \notin active_connections'
           /\ \A c \in Conns :
                (call.sent[c] = 1 /\ c \in active_connections)
                  => c \in active_connections'
    ]_vars

(***************************************************************************)
(* Further claims about the bounded windows (SpecStore): the recent-tick   *)
(* set                                                                     *)
(***************************************************************************)
\* C39: the recent-tick set is kept in timestamp order, and the trim that
\* ends an add_tick call leaves at most 1000 entries (exactly 1000 of more
\* than 1000): the entries of the highest ranks, in their order, so that no
\* entry it removes has a timestamp above that of an entry it keeps; when the
\* tick of the call was, in a set of more than 1000, the entry with a
\* timestamp lower than every other, that tick is not in the set afterwards.
C39_TickWindowKeepsNewest ==
  [][ storeKind = "ticks" =>
        /\ zrange' # zrange =>
             \A i \in 1..(Len(zrange') - 1) : zrange'[i][1] <= zrange'[i + 1][1]
        /\ \A w \in Writers :
             (wPc[w] = "zrem" /\ wPc'[w] = "idle") =>
               LET n == Len(zrange)
                   kept == Len(zrange')
                   d == n - kept
               IN /\ kept <= 1000
                  /\ d >= 0
                  /\ n > 1000 => kept = 1000
                  /\ zrange' = SubSeq(zrange, d + 1, n)
                  /\ \A i \in 1..d : zrange[i][1] <= zrange'[1][1]
                  /\ ( /\ n > 1000
                       /\ \E i \in 1..n : zrange[i] = wMember[w]
                       /\ \A i \in 1..n : \/ zrange[i] = wMember[w]
                                          \/ wMember[w][1] < zrange[i][1] )
                     => \A i \in 1..kept : zrange'[i] # wMember[w]
    ]_vars

\* an add_tick call with the late tick has ended on a full window: the set
\* holds the 1000 ticks of timestamps 1..1000 and not the late one
C39_Witness ==
  /\ storeKind = "ticks"
  /\ \E w \in Writers : wMember[w] = <<0, 1>> /\ wPc[w] = "idle"
  /\ Len(zrange) = 1000
  /\ zrange[1][1] = 1 /\ zrange[1000][1] = 1000
  /\ overlaps = 0

====
